---- MODULE Spec2Model ----
(***************************************************************************)
(* A model of remotefs-fuse: the Unix (FUSE) face of the Driver with its   *)
(* inode table, its per-process file-handle table, the permission check    *)
(* and the stream/temp-file read and write helpers, and the Windows        *)
(* (Dokan) face with its Stat cache.                                        *)
(*                                                                         *)
(* Specifications:                                                         *)
(*   SpecHandles  the FileHandlersDb API (put / get / close)               *)
(*   SpecTable    the same API with close called on any handle number      *)
(*   SpecAccess   Driver::check_access as a pure function                  *)
(*   SpecUnix     the Filesystem callbacks that change the namespace       *)
(*   SpecFiles    open, opendir, read, write, release and releasedir       *)
(*   SpecReaddir  a directory listing session (opendir + readdir calls)    *)
(*   SpecBridge   Driver::read / read_tempfile / write over a remote file  *)
(*   SpecInodes   the callbacks that read or change the InodeDb            *)
(*   SpecWindows  the Windows (Dokan) callbacks create_file, cleanup,      *)
(*                close_file, delete_file, delete_directory and move_file  *)
(*   SpecOptions  lookup, getattr, create and mkdir under mount options    *)
(*   SpecClose    open, opendir, flush, fsync, fsyncdir, release, releasedir *)
(*   SpecRename   rename followed by getattr                                *)
(*   SpecLookup   lookup and forget                                         *)
(*   SpecRead     open and read at offsets up to past the end of the file   *)
(*   SpecWrite    Driver::write under every outcome of the RemoteFs         *)
(*   SpecOpen     create_file and close_file, with the CreateFileInfo       *)
(*   SpecLocks    the locks of concurrent Windows callbacks                 *)
(*   SpecStat     Driver::stat step by step against close_file              *)
(*   SpecStream   write_file, read_file, set_end_of_file on an AltStream    *)
(*   SpecChunks   Driver::write in chunks, then Driver::read                *)
(***************************************************************************)
EXTENDS Integers, Sequences, FiniteSets, TLC

VARIABLES
    handlers,     \* Driver.file_handlers : Pid -> ProcessFileHandlers
    database,     \* Driver.database (InodeDb) : Inode -> path
    remote,       \* the RemoteFs behind the Driver : path -> node
    query,        \* the inputs of a pure function under check
    session,      \* a directory listing in progress, as its caller sees it
    tempfiles,    \* the temporary files that exist on the local disk
    streaming,    \* whether the RemoteFs hands out read and write streams
    last          \* history: the latest operation, its inputs and what it replied

vars == <<handlers, database, remote, query, session, tempfiles, streaming, last>>

-----------------------------------------------------------------------------
(* Option<T> is a set with at most one element.                            *)
None == {}
Some(x) == {x}

(* A finite map with one key added (HashMap::insert) or removed.           *)
MapInsert(m, k, v) == [x \in (DOMAIN m) \cup {k} |-> IF x = k THEN v ELSE m[x]]
MapRemove(m, k) == [x \in (DOMAIN m) \ {k} |-> m[x]]
EmptyMap == [x \in {} |-> x]

-----------------------------------------------------------------------------
(* Bounds of the handle-table model.                                        *)
MaxOpen == 3                 \* live handles per process
Pids == {1, 2}
HandleKinds == {<<1, TRUE, FALSE>>, <<2, TRUE, TRUE>>}   \* (inode, read, write) a put may record
Fhs == 0 .. MaxOpen          \* handle numbers a close may name

-----------------------------------------------------------------------------
(* file_handle.rs                                                           *)

FileHandle(inode, read, write) == [inode |-> inode, read |-> read, write |-> write]

ProcessDefault == [handles |-> EmptyMap, next |-> 0]

(* ProcessFileHandlers::put: the row after the call and the number returned. *)
ProcPut(p, inode, read, write) ==
    LET fh == p.next
        hs == MapInsert(p.handles, fh, FileHandle(inode, read, write))
    IN  [row |-> [handles |-> hs, next |-> Cardinality(DOMAIN hs)], fh |-> fh]

ProcGet(p, fh) == IF fh \in DOMAIN p.handles THEN Some(p.handles[fh]) ELSE None

ProcClose(p, fh) == [handles |-> MapRemove(p.handles, fh), next |-> fh]

(* FileHandlersDb::put keyed by one fixed row, whatever the pid.            *)
DbPutShared(db, pid, inode, read, write) ==
    LET key == CHOOSE q \in Pids : \A r \in Pids : q <= r
        row == IF key \in DOMAIN db THEN db[key] ELSE ProcessDefault
        res == ProcPut(row, inode, read, write)
    IN  [db |-> MapInsert(db, key, res.row), fh |-> res.fh]

(* FileHandlersDb::put (the Driver calls it file_handlers.open).            *)
DbPut(db, pid, inode, read, write) ==
    LET row == IF pid \in DOMAIN db THEN db[pid] ELSE ProcessDefault
        res == ProcPut(row, inode, read, write)
    IN  [db |-> MapInsert(db, pid, res.row), fh |-> res.fh]

DbGet(db, pid, fh) == IF pid \in DOMAIN db THEN ProcGet(db[pid], fh) ELSE None

(* a close that leaves the row of the process in place *)
DbCloseKeepsRow(db, pid, fh) ==
    IF pid \in DOMAIN db THEN MapInsert(db, pid, ProcClose(db[pid], fh)) ELSE db

DbClose(db, pid, fh) ==
    LET closed == IF pid \in DOMAIN db
                  THEN MapInsert(db, pid, ProcClose(db[pid], fh))
                  ELSE db
    IN  IF pid \in DOMAIN closed /\ DOMAIN closed[pid].handles = {}
        THEN MapRemove(closed, pid)
        ELSE closed

-----------------------------------------------------------------------------
(* SpecHandles: any sequence of put and close calls on the table.           *)

NoOp == [op |-> "none", reply |-> "none", n |-> 0]

Unused == "unused"

InitHandles ==
    /\ handlers = EmptyMap
    /\ last = NoOp
    /\ database = Unused /\ remote = Unused /\ query = Unused
    /\ session = Unused /\ tempfiles = {} /\ streaming = Unused

HPut(pid, inode, read, write) ==
    LET res == DbPut(handlers, pid, inode, read, write)
    IN  /\ Cardinality(DOMAIN (IF pid \in DOMAIN handlers
                               THEN handlers[pid].handles ELSE EmptyMap)) < MaxOpen
        /\ handlers' = res.db
        /\ last' = [op |-> "put", pid |-> pid, fh |-> res.fh,
                    wasLive |-> DbGet(handlers, pid, res.fh) # None,
                    expect |-> IF last.op = "close" /\ last.pid = pid /\ last.wasLive
                               THEN Some(last.fh) ELSE None]
        /\ UNCHANGED <<database, remote, query, session, tempfiles, streaming>>

(* close is reached through release / releasedir only, which call it for  *)
(* a handle that get() finds.                                              *)
HClose(pid, fh) ==
    /\ DbGet(handlers, pid, fh) # None
    /\ handlers' = DbClose(handlers, pid, fh)
    /\ last' = [op |-> "close", pid |-> pid, fh |-> fh, wasLive |-> TRUE]
    /\ UNCHANGED <<database, remote, query, session, tempfiles, streaming>>

NextHandles ==
    \/ \E pid \in Pids, k \in HandleKinds : HPut(pid, k[1], k[2], k[3])
    \/ \E pid \in Pids, fh \in Fhs : HClose(pid, fh)

SpecHandles == InitHandles /\ [][NextHandles]_vars

(* SpecTable: the FileHandlersDb API by itself, where close may name any   *)
(* pid and any handle number, known or not.                                 *)
TClose(pid, fh) ==
    /\ handlers' = DbClose(handlers, pid, fh)
    /\ last' = [op |-> "close", pid |-> pid, fh |-> fh,
                wasLive |-> DbGet(handlers, pid, fh) # None,
                remaining |-> IF pid \in DOMAIN handlers
                              THEN DOMAIN handlers[pid].handles \ {fh} ELSE {}]
    /\ UNCHANGED <<database, remote, query, session, tempfiles, streaming>>

NextTable ==
    \/ \E pid \in Pids, k \in HandleKinds : HPut(pid, k[1], k[2], k[3])
    \/ \E pid \in Pids, fh \in Fhs : TClose(pid, fh)

SpecTable == InitHandles /\ [][NextTable]_vars

(* C21: no row of the table has an empty handle set: a close that takes    *)
(* the last handle of a process removes its row, and a close that leaves    *)
(* the process a handle leaves its row, with the handles that remain.       *)
C21_NoEmptyRow ==
    /\ \A pid \in DOMAIN handlers : DOMAIN handlers[pid].handles # {}
    /\ last.op = "close" =>
           /\ last.pid \in DOMAIN handlers <=> last.remaining # {}
           /\ last.pid \in DOMAIN handlers =>
                  DOMAIN handlers[last.pid].handles = last.remaining

(* the last handle of a process has just been closed, another process      *)
(* still holding one                                                        *)
C21_Witness ==
    /\ last.op = "close" /\ last.wasLive /\ last.remaining = {}
    /\ handlers # EmptyMap

(* C1: put never returns a handle number that is live in that pid just     *)
(* before the call, so no live handle's record is overwritten.             *)
C1_PutReturnsFreeHandle == last.op = "put" => ~last.wasLive

(* C2: right after close(pid, h) of an open handle h, the next put of the  *)
(* same pid returns h, also when the close emptied the pid's handle set.   *)
C2_ReuseAfterClose ==
    (last.op = "put" /\ last.expect # None) => last.expect = Some(last.fh)

(* C3 as stated: after put(a, ...) returned h, get(b, h) = None for every  *)
(* other pid b.                                                            *)
C3_OtherPidSeesNone ==
    last.op = "put" =>
        \A b \in Pids \ {last.pid} : DbGet(handlers, b, last.fh) = None

(* C3 amended: a put or close by pid a changes get(b, h) for no other pid  *)
(* b and no h: b sees under h only what b itself opened, and None if it    *)
(* holds no handle h of its own.                                           *)
C3_HandleScoping ==
    [][\A b \in Pids \ {last'.pid} : \A h \in Fhs :
           DbGet(handlers', b, h) = DbGet(handlers, b, h)]_vars

C3_Witness ==
    /\ last.op = "put" /\ last.pid = 1 /\ last.fh = 1
    /\ DbGet(handlers, 1, 1) # None
    /\ DbGet(handlers, 2, 1) = None
    /\ DbGet(handlers, 2, 0) # None

-----------------------------------------------------------------------------
(* unix.rs: Driver::check_access                                            *)

F_OK == 0
X_OK == 1
W_OK == 2
R_OK == 4
DefaultMode == 511           \* 0o777

RECURSIVE BitAnd(_, _)
BitAnd(a, b) ==
    IF a = 0 \/ b = 0 THEN 0
    ELSE (a % 2) * (b % 2) + 2 * BitAnd(a \div 2, b \div 2)

BitOr(a, b) == a + b - BitAnd(a, b)
ShiftRight(a, n) == a \div (2 ^ n)

(* Option::unwrap_or *)
UnwrapOr(opt, d) == IF opt = None THEN d ELSE CHOOSE x \in opt : TRUE

(* A remotefs File, as far as the Driver reads it. *)
Metadata(mode, uid, gid) == [mode |-> mode, uid |-> uid, gid |-> gid]

(* check_access with the owner triad applied to every caller. *)
CheckAccessOwnerOnly(md, uid, gid, access_mask) ==
    IF access_mask = F_OK THEN TRUE
    ELSE LET file_mode == UnwrapOr(md.mode, DefaultMode)
         IN  access_mask - BitAnd(access_mask, ShiftRight(file_mode, 6)) = 0

(* check_access with root allowed everything, X_OK included *)
CheckAccessRootAll(md, uid, gid, access_mask) ==
    IF access_mask = F_OK \/ uid = 0 THEN TRUE
    ELSE LET file_mode == UnwrapOr(md.mode, DefaultMode)
         IN  IF uid = UnwrapOr(md.uid, 0)
             THEN access_mask - BitAnd(access_mask, ShiftRight(file_mode, 6)) = 0
             ELSE IF gid = UnwrapOr(md.gid, 0)
             THEN access_mask - BitAnd(access_mask, ShiftRight(file_mode, 3)) = 0
             ELSE access_mask - BitAnd(access_mask, file_mode) = 0

(* check_access that reads a set mode bit as a denial *)
CheckAccessDenyBits(md, uid, gid, access_mask) ==
    IF access_mask = F_OK THEN TRUE
    ELSE BitAnd(access_mask, ShiftRight(UnwrapOr(md.mode, DefaultMode), 6)) = 0

CheckAccess(md, uid, gid, access_mask) ==
    IF access_mask = F_OK THEN TRUE
    ELSE LET file_mode == UnwrapOr(md.mode, DefaultMode)
         IN  IF uid = 0
             THEN LET m0 == BitAnd(access_mask, X_OK)
                      m1 == m0 - BitAnd(m0, ShiftRight(file_mode, 6))
                      m2 == m1 - BitAnd(m1, ShiftRight(file_mode, 3))
                      m3 == m2 - BitAnd(m2, file_mode)
                  IN  m3 = 0
             ELSE IF uid = UnwrapOr(md.uid, 0)
             THEN access_mask - BitAnd(access_mask, ShiftRight(file_mode, 6)) = 0
             ELSE IF gid = UnwrapOr(md.gid, 0)
             THEN access_mask - BitAnd(access_mask, ShiftRight(file_mode, 3)) = 0
             ELSE access_mask - BitAnd(access_mask, file_mode) = 0

-----------------------------------------------------------------------------
(* SpecAccess: check_access applied to every (file, uid, gid, mask).       *)

Modes == 0 .. 511
Masks == 0 .. 7              \* the subsets of {R_OK, W_OK, X_OK}; 0 is F_OK alone
CallerUids == {0, 10, 1000}
CallerGids == {0, 500}
FileUids == {None, Some(1000)}
FileGids == {None, Some(500)}

InitAccess ==
    /\ query \in [md : [mode : {None} \cup {Some(m) : m \in Modes},
                         uid : FileUids, gid : FileGids],
                   uid : CallerUids, gid : CallerGids, mask : Masks]
    /\ last = NoOp
    /\ handlers = EmptyMap /\ database = Unused /\ remote = Unused
    /\ session = Unused /\ tempfiles = {} /\ streaming = Unused

AccessCall ==
    /\ last.op = "none"
    /\ last' = [op |-> "check_access",
                result |-> CheckAccess(query.md, query.uid, query.gid, query.mask)]
    /\ UNCHANGED <<handlers, database, remote, query, session, tempfiles, streaming>>

NextAccess == AccessCall

SpecAccess == InitAccess /\ [][NextAccess]_vars

(* The permission rule as the specification words it, over sets of       *)
(* permissions: "r", "w", "x" requested by the mask and granted by a triad. *)
Requested(mask) ==
    {p \in {"r", "w", "x"} :
        \/ p = "r" /\ (mask \div 4) % 2 = 1
        \/ p = "w" /\ (mask \div 2) % 2 = 1
        \/ p = "x" /\ mask % 2 = 1}

(* who: 0 = other, 1 = group, 2 = owner *)
Triad(mode, who) ==
    LET t == (mode \div (8 ^ who)) % 8
    IN  {p \in {"r", "w", "x"} :
            \/ p = "r" /\ t \div 4 = 1
            \/ p = "w" /\ (t \div 2) % 2 = 1
            \/ p = "x" /\ t % 2 = 1}

RefAccess(q) ==
    LET mode == IF q.md.mode = None THEN 511 ELSE CHOOSE m \in q.md.mode : TRUE
        fuid == IF q.md.uid = None THEN 0 ELSE CHOOSE u \in q.md.uid : TRUE
        fgid == IF q.md.gid = None THEN 0 ELSE CHOOSE g \in q.md.gid : TRUE
        req  == Requested(q.mask)
    IN  IF req = {} THEN TRUE
        ELSE IF q.uid = 0
        THEN ("x" \in req) => \E who \in 0 .. 2 : "x" \in Triad(mode, who)
        ELSE IF q.uid = fuid THEN req \subseteq Triad(mode, 2)
        ELSE IF q.gid = fgid THEN req \subseteq Triad(mode, 1)
        ELSE req \subseteq Triad(mode, 0)

QueryMode == UnwrapOr(query.md.mode, DefaultMode)

(* mode bit b (0 = other x ... 8 = owner r) is set *)
ModeBit(mode, b) == (mode \div (2 ^ b)) % 2 = 1

(* C14: with uid, gid, owner, group and mask fixed, an allow stays an      *)
(* allow when one more mode bit is granted, and a deny stays a deny when    *)
(* one mode bit is revoked (any grant or revocation is a chain of these).   *)
C14_PermissionMonotone ==
    (last.op = "check_access" /\ query.md.mode # None) =>
        \A b \in 0 .. 8 :
            /\ (last.result /\ ~ModeBit(QueryMode, b)) =>
                   CheckAccess([query.md EXCEPT !.mode = Some(QueryMode + 2 ^ b)],
                               query.uid, query.gid, query.mask)
            /\ (~last.result /\ ModeBit(QueryMode, b)) =>
                   ~CheckAccess([query.md EXCEPT !.mode = Some(QueryMode - 2 ^ b)],
                                query.uid, query.gid, query.mask)

(* an allow that rests on a single mode bit: 0o040 read by a group member *)
C14_Witness ==
    /\ last.op = "check_access" /\ last.result
    /\ query.md.mode = Some(32) /\ query.md.gid = Some(500)
    /\ query.uid = 10 /\ query.gid = 500 /\ query.mask = R_OK

(* C15: for uid 0 a mask without X_OK is always allowed, and a mask with   *)
(* X_OK is allowed exactly when one of the three execute bits is set.       *)
C15_RootAccess ==
    (last.op = "check_access" /\ query.uid = 0) =>
        last.result = \/ query.mask % 2 = 0
                      \/ ModeBit(QueryMode, 0) \/ ModeBit(QueryMode, 3)
                      \/ ModeBit(QueryMode, 6)

(* root is denied X_OK on a file of mode 0o666 *)
C15_Witness ==
    /\ last.op = "check_access" /\ ~last.result
    /\ query.uid = 0 /\ query.md.mode = Some(438) /\ query.mask = 5

-----------------------------------------------------------------------------
(* Paths, inode numbers and the remote file system.                         *)

MaxDepth == 2                \* components of the longest path
Names == {"a", "b"}
Root == << >>                \* the path "/"
Paths == UNION {[1 .. n -> Names] : n \in 0 .. MaxDepth}

ROOT_INODE == 1
HashBase == 100

NameCode(n) == IF n = "a" THEN 1 ELSE IF n = "b" THEN 2 ELSE 3

RECURSIVE PathCode(_)
PathCode(p) == IF p = << >> THEN 0 ELSE NameCode(Head(p)) + 4 * PathCode(Tail(p))

(* unix.rs inode(): the SeaHash of the path, taken to be free of collisions *)
(* and never the reserved number 1.                                         *)
Inode(path) == HashBase + PathCode(path)

Parent(path) == SubSeq(path, 1, Len(path) - 1)
IsPrefix(p, q) == Len(p) <= Len(q) /\ SubSeq(q, 1, Len(p)) = p

BackendUid == 1000           \* the user the backend acts as
BackendGid == 500

(* A node of the remote tree: its type, its metadata and, for a file, its  *)
(* bytes. stat reports size = the number of bytes.                          *)
Node(type, mode, uid, gid, data) ==
    [type |-> type, md |-> Metadata(mode, uid, gid), data |-> data]

(* remotefs::File as returned by stat / list_dir *)
File(path, node) ==
    [path |-> path, type |-> node.type, md |-> node.md, size |-> Len(node.data)]

IsDir(r, path) == path \in DOMAIN r /\ r[path].type = "dir"
Children(r, path) == {q \in DOMAIN r : Len(q) = Len(path) + 1 /\ IsPrefix(path, q)}

(* The RemoteFs calls the Driver makes: [ok, r] is the outcome and the     *)
(* remote tree after the call.                                              *)
RCreateDir(r, path, mode) ==
    IF path \notin DOMAIN r /\ path # Root /\ IsDir(r, Parent(path))
    THEN [ok |-> TRUE,
          r |-> MapInsert(r, path,
                    Node("dir", Some(mode), Some(BackendUid), Some(BackendGid), << >>))]
    ELSE [ok |-> FALSE, r |-> r]

RCreateFile(r, path, md, data) ==
    IF path # Root /\ IsDir(r, Parent(path)) /\ ~IsDir(r, path)
    THEN [ok |-> TRUE, r |-> MapInsert(r, path, [type |-> "file", md |-> md, data |-> data])]
    ELSE [ok |-> FALSE, r |-> r]

RRemoveFile(r, path) ==
    IF path \in DOMAIN r /\ r[path].type # "dir"
    THEN [ok |-> TRUE, r |-> MapRemove(r, path)]
    ELSE [ok |-> FALSE, r |-> r]

RRemoveDir(r, path) ==
    IF IsDir(r, path) /\ path # Root /\ Children(r, path) = {}
    THEN [ok |-> TRUE, r |-> MapRemove(r, path)]
    ELSE [ok |-> FALSE, r |-> r]

RSymlink(r, path, target) ==
    IF path \notin DOMAIN r /\ path # Root /\ IsDir(r, Parent(path))
    THEN [ok |-> TRUE,
          r |-> MapInsert(r, path,
                    Node("symlink", Some(DefaultMode), Some(BackendUid), Some(BackendGid), << >>))]
    ELSE [ok |-> FALSE, r |-> r]

(* mov of a file, a symlink or an empty directory onto a free name *)
RMov(r, src, dst) ==
    IF /\ src \in DOMAIN r /\ src # Root /\ dst # Root
       /\ dst \notin DOMAIN r /\ IsDir(r, Parent(dst))
       /\ Children(r, src) = {}
    THEN [ok |-> TRUE, r |-> MapInsert(MapRemove(r, src), dst, r[src])]
    ELSE [ok |-> FALSE, r |-> r]

-----------------------------------------------------------------------------
(* unix.rs: the Driver's helpers                                            *)

(* convert_file *)
ConvertFile(file) ==
    [ino  |-> Inode(file.path),
     size |-> file.size,
     kind |-> file.type,
     perm |-> UnwrapOr(file.md.mode, DefaultMode),
     uid  |-> UnwrapOr(file.md.uid, 0),
     gid  |-> UnwrapOr(file.md.gid, 0)]

(* InodeDb::put unless InodeDb::has *)
DbPutIfAbsent(db, ino, path) == IF ino \in DOMAIN db THEN db ELSE MapInsert(db, ino, path)

(* Driver::get_inode_from_path: stat, then remember the inode *)
GetInodeFromPath(db, r, path) ==
    IF path \in DOMAIN r
    THEN [ok |-> TRUE, file |-> File(path, r[path]),
          attrs |-> ConvertFile(File(path, r[path])),
          db |-> DbPutIfAbsent(db, Inode(path), path), calls |-> {"stat"}]
    ELSE [ok |-> FALSE, db |-> db, calls |-> {"stat"}]

(* Driver::get_inode *)
GetInode(db, r, ino) ==
    IF ino \in DOMAIN db
    THEN GetInodeFromPath(db, r, db[ino])
    ELSE [ok |-> FALSE, db |-> db, calls |-> {}]

(* Driver::lookup_name *)
LookupName(db, parent, name) ==
    IF parent \in DOMAIN db
    THEN LET path == Append(db[parent], name)
         IN  [path |-> Some(path), db |-> DbPutIfAbsent(db, Inode(path), path)]
    ELSE [path |-> None, db |-> db]

(* Driver::check_parent_access *)
CheckParentAccess(db, r, ino, req, access_mask) ==
    LET g == GetInode(db, r, ino)
    IN  [allowed |-> IF g.ok THEN CheckAccess(g.file.md, req.uid, req.gid, access_mask)
                     ELSE FALSE,
         db |-> g.db, calls |-> g.calls]

-----------------------------------------------------------------------------
(* unix.rs: the Filesystem callbacks. Each is a function of the Driver's   *)
(* state (db, r, h) and the request; it yields the state after the call,   *)
(* the reply sent to the kernel and the RemoteFs calls made.               *)

S_IFMT  == 61440             \* 0o170000
S_IFREG == 32768             \* 0o100000
S_IFDIR == 16384             \* 0o040000
S_IFLNK == 40960             \* 0o120000
S_IFIFO == 4096              \* 0o010000

O_RDONLY  == 0
O_WRONLY  == 1
O_RDWR    == 2
O_ACCMODE == 3
O_TRUNC   == 512             \* 0o1000
FMODE_EXEC == 32             \* 0x20

(* UnixPex::from(u32): the nine permission bits *)
UnixPex(mode) == mode % 512

Out(db, r, h, reply, calls) ==
    [db |-> db, r |-> r, h |-> h, reply |-> reply, calls |-> calls,
     attrs |-> None, fh |-> None]

OutEntry(db, r, h, reply, calls, attrs) ==
    [db |-> db, r |-> r, h |-> h, reply |-> reply, calls |-> calls,
     attrs |-> Some(attrs), fh |-> None]

(* the tail shared by mknod and mkdir: stat the new node and reply *)
ReplyNewEntry(db, r, h, path, calls) ==
    LET g == GetInodeFromPath(db, r, path)
    IN  IF g.ok THEN OutEntry(g.db, r, h, "entry", calls \cup g.calls, g.attrs)
        ELSE Out(g.db, r, h, "ENOENT", calls \cup g.calls)

Mknod(db, r, h, req, parent, name, mode) ==
    LET file_type == BitAnd(mode, S_IFMT)
        lk  == LookupName(db, parent, name)
        path == UnwrapOr(lk.path, Root)
        cpa == CheckParentAccess(lk.db, r, parent, req, W_OK)
        res == IF file_type = S_IFDIR
               THEN RCreateDir(r, path, UnixPex(mode))
               ELSE RCreateFile(r, path,
                        Metadata(Some(UnixPex(mode)), Some(req.uid), Some(req.gid)), << >>)
        call == IF file_type = S_IFDIR THEN "create_dir" ELSE "create_file"
    IN  IF file_type \notin {S_IFREG, S_IFLNK, S_IFDIR} THEN Out(db, r, h, "ENOSYS", {})
        ELSE IF lk.path = None THEN Out(lk.db, r, h, "ENOENT", {})
        ELSE IF ~cpa.allowed THEN Out(cpa.db, r, h, "EACCES", cpa.calls)
        ELSE IF file_type = S_IFLNK THEN Out(cpa.db, r, h, "ENOSYS", cpa.calls)
        ELSE IF ~res.ok THEN Out(cpa.db, r, h, "EIO", cpa.calls \cup {call})
        ELSE ReplyNewEntry(cpa.db, res.r, h, path, cpa.calls \cup {call})

Mkdir(db, r, h, req, parent, name, mode) ==
    LET lk  == LookupName(db, parent, name)
        path == UnwrapOr(lk.path, Root)
        cpa == CheckParentAccess(lk.db, r, parent, req, W_OK)
        res == RCreateDir(r, path, UnixPex(mode))
    IN  IF lk.path = None THEN Out(lk.db, r, h, "ENOENT", {})
        ELSE IF ~cpa.allowed THEN Out(cpa.db, r, h, "EACCES", cpa.calls)
        ELSE IF ~res.ok THEN Out(cpa.db, r, h, "EIO", cpa.calls \cup {"create_dir"})
        ELSE ReplyNewEntry(cpa.db, res.r, h, path, cpa.calls \cup {"create_dir"})

Unlink(db, r, h, req, parent, name) ==
    LET lk  == LookupName(db, parent, name)
        path == UnwrapOr(lk.path, Root)
        cpa == CheckParentAccess(lk.db, r, parent, req, W_OK)
        res == RRemoveFile(r, path)
    IN  IF lk.path = None THEN Out(lk.db, r, h, "ENOENT", {})
        ELSE IF ~cpa.allowed THEN Out(cpa.db, r, h, "EACCES", cpa.calls)
        ELSE IF ~res.ok THEN Out(cpa.db, r, h, "EIO", cpa.calls \cup {"remove_file"})
        ELSE Out(cpa.db, res.r, h, "ok", cpa.calls \cup {"remove_file"})

Rmdir(db, r, h, req, parent, name) ==
    LET lk  == LookupName(db, parent, name)
        path == UnwrapOr(lk.path, Root)
        cpa == CheckParentAccess(lk.db, r, parent, req, W_OK)
        res == RRemoveDir(r, path)
    IN  IF lk.path = None THEN Out(lk.db, r, h, "ENOENT", {})
        ELSE IF ~cpa.allowed THEN Out(cpa.db, r, h, "EACCES", cpa.calls)
        ELSE IF ~res.ok THEN Out(cpa.db, r, h, "EIO", cpa.calls \cup {"remove_dir"})
        ELSE Out(cpa.db, res.r, h, "ok", cpa.calls \cup {"remove_dir"})

(* symlink ends in todo!() once the remote symlink is made: the callback   *)
(* panics instead of replying.                                             *)
Symlink(db, r, h, req, parent, name, target) ==
    LET lk  == LookupName(db, parent, name)
        path == UnwrapOr(lk.path, Root)
        cpa == CheckParentAccess(lk.db, r, parent, req, W_OK)
        res == RSymlink(r, path, target)
    IN  IF lk.path = None THEN Out(lk.db, r, h, "ENOENT", {})
        ELSE IF ~cpa.allowed THEN Out(cpa.db, r, h, "EACCES", cpa.calls)
        ELSE IF ~res.ok THEN Out(cpa.db, r, h, "EIO", cpa.calls \cup {"symlink"})
        ELSE Out(cpa.db, res.r, h, "panic", cpa.calls \cup {"symlink"})

(* a rename that files the new path under the inode of the old one *)
RenameKeepsInode(db, r, h, req, parent, name, newparent, newname) ==
    LET src  == Append(db[parent], name)
        dest == Append(db[newparent], newname)
        res  == RMov(r, src, dest)
    IN  IF parent \notin DOMAIN db \/ newparent \notin DOMAIN db
        THEN Out(db, r, h, "EACCES", {})
        ELSE IF ~res.ok THEN Out(db, r, h, "EIO", {"mov"})
        ELSE Out(MapInsert(db, Inode(src), dest), res.r, h, "ok", {"mov"})

(* a rename that drops the source path's inode after the move *)
RenameForgetsSource(db, r, h, req, parent, name, newparent, newname) ==
    LET cpa1 == CheckParentAccess(db, r, parent, req, W_OK)
        lk1  == LookupName(cpa1.db, parent, name)
        src  == UnwrapOr(lk1.path, Root)
        cpa2 == CheckParentAccess(lk1.db, r, newparent, req, W_OK)
        lk2  == LookupName(cpa2.db, newparent, newname)
        dest == UnwrapOr(lk2.path, Root)
        res  == RMov(r, src, dest)
        calls == cpa1.calls \cup cpa2.calls
    IN  IF ~cpa1.allowed THEN Out(cpa1.db, r, h, "EACCES", cpa1.calls)
        ELSE IF lk1.path = None THEN Out(lk1.db, r, h, "ENOENT", cpa1.calls)
        ELSE IF ~cpa2.allowed THEN Out(cpa2.db, r, h, "EACCES", calls)
        ELSE IF lk2.path = None THEN Out(lk2.db, r, h, "ENOENT", calls)
        ELSE IF ~res.ok THEN Out(lk2.db, r, h, "EIO", calls \cup {"mov"})
        ELSE Out(MapRemove(MapInsert(lk2.db, Inode(dest), dest), Inode(src)), res.r, h,
                 "ok", calls \cup {"mov"})

Rename(db, r, h, req, parent, name, newparent, newname) ==
    LET cpa1 == CheckParentAccess(db, r, parent, req, W_OK)
        lk1  == LookupName(cpa1.db, parent, name)
        src  == UnwrapOr(lk1.path, Root)
        cpa2 == CheckParentAccess(lk1.db, r, newparent, req, W_OK)
        lk2  == LookupName(cpa2.db, newparent, newname)
        dest == UnwrapOr(lk2.path, Root)
        res  == RMov(r, src, dest)
        calls == cpa1.calls \cup cpa2.calls
    IN  IF ~cpa1.allowed THEN Out(cpa1.db, r, h, "EACCES", cpa1.calls)
        ELSE IF lk1.path = None THEN Out(lk1.db, r, h, "ENOENT", cpa1.calls)
        ELSE IF ~cpa2.allowed THEN Out(cpa2.db, r, h, "EACCES", calls)
        ELSE IF lk2.path = None THEN Out(lk2.db, r, h, "ENOENT", calls)
        ELSE IF ~res.ok THEN Out(lk2.db, r, h, "EIO", calls \cup {"mov"})
        ELSE Out(MapInsert(lk2.db, Inode(dest), dest), res.r, h, "ok", calls \cup {"mov"})

Create(db, r, h, req, parent, name, mode, flags) ==
    LET acc == BitAnd(flags, O_ACCMODE)
        read  == acc \in {O_RDONLY, O_RDWR}
        write == acc \in {O_WRONLY, O_RDWR}
        lk   == LookupName(db, parent, name)
        path == UnwrapOr(lk.path, Root)
        res  == RCreateFile(r, path,
                    Metadata(Some(UnixPex(mode)), Some(req.uid), Some(req.gid)), << >>)
        g    == GetInode(lk.db, res.r, Inode(path))
        put  == DbPut(h, req.pid, Inode(path), read, write)
    IN  IF acc \notin {O_RDONLY, O_WRONLY, O_RDWR} THEN Out(db, r, h, "EINVAL", {})
        ELSE IF lk.path = None THEN Out(lk.db, r, h, "ENOENT", {})
        ELSE IF ~res.ok THEN Out(lk.db, r, h, "EIO", {"create_file"})
        ELSE IF ~g.ok THEN Out(g.db, res.r, h, "ENOENT", {"create_file"} \cup g.calls)
        ELSE [db |-> g.db, r |-> res.r, h |-> put.db, reply |-> "created",
              calls |-> {"create_file"} \cup g.calls,
              attrs |-> Some(g.attrs), fh |-> Some(put.fh)]

-----------------------------------------------------------------------------
(* SpecUnix: the callbacks that change the remote namespace, called in any *)
(* order by two users on a tree that starts as the root directory alone.   *)

Req(uid, gid, pid) == [uid |-> uid, gid |-> gid, pid |-> pid]
Callers == {Req(1000, 500, 1), Req(10, 7, 2)}
RootModes == {493, 511}      \* 0o755, 0o777
DirModeArgs == {511, 365}    \* 0o777, 0o555
FileModeArg == 420           \* 0o644
UnknownInode == 999
MaxCreated == 1              \* handles a process may hold through create
MaxSteps == 3                \* callbacks in one run

MutatingOps == {"mknod", "mkdir", "unlink", "rmdir", "symlink", "rename", "create"}
MutatingCalls == {"create_dir", "create_file", "remove_file", "remove_dir", "symlink", "mov"}

HandleCount(h, pid) == IF pid \in DOMAIN h THEN Cardinality(DOMAIN h[pid].handles) ELSE 0

(* The parents a callback may name: every inode the kernel was told of and *)
(* one it was not; a child must stay within MaxDepth.                      *)
ParentArgs == {i \in DOMAIN database : Len(database[i]) < MaxDepth} \cup {UnknownInode}

(* the caller passes the W_OK check on the directory behind inode ino *)
ParentWritable(db, r, req, ino) ==
    /\ ino \in DOMAIN db
    /\ db[ino] \in DOMAIN r
    /\ CheckAccess(r[db[ino]].md, req.uid, req.gid, W_OK)

(* the Driver is gone once a callback panicked *)
Alive == last.reply # "panic" /\ last.n < MaxSteps

Apply(op, req, res, parentW) ==
    /\ Alive
    /\ database' = res.db
    /\ remote' = res.r
    /\ handlers' = res.h
    /\ last' = [op |-> op, reply |-> res.reply, calls |-> res.calls, pid |-> req.pid,
                attrs |-> res.attrs, fh |-> res.fh, parentW |-> parentW,
                changed |-> res.r # remote, n |-> last.n + 1]
    /\ UNCHANGED <<query, session, tempfiles, streaming>>

InitUnix ==
    /\ database = MapInsert(EmptyMap, ROOT_INODE, Root)
    /\ handlers = EmptyMap
    /\ \E m \in RootModes :
           remote = MapInsert(EmptyMap, Root,
                        Node("dir", Some(m), Some(BackendUid), Some(BackendGid), << >>))
    /\ last = NoOp
    /\ query = Unused /\ session = Unused /\ tempfiles = {} /\ streaming = Unused

DoMknod ==
    \E req \in Callers, parent \in ParentArgs, name \in Names,
       type \in {S_IFREG, S_IFDIR, S_IFLNK, S_IFIFO} :
        Apply("mknod", req,
              Mknod(database, remote, handlers, req, parent, name, type + FileModeArg),
              ParentWritable(database, remote, req, parent))

DoMkdir ==
    \E req \in Callers, parent \in ParentArgs, name \in Names, mode \in DirModeArgs :
        Apply("mkdir", req, Mkdir(database, remote, handlers, req, parent, name, mode),
              ParentWritable(database, remote, req, parent))

DoUnlink ==
    \E req \in Callers, parent \in ParentArgs, name \in Names :
        Apply("unlink", req, Unlink(database, remote, handlers, req, parent, name),
              ParentWritable(database, remote, req, parent))

DoRmdir ==
    \E req \in Callers, parent \in ParentArgs, name \in Names :
        Apply("rmdir", req, Rmdir(database, remote, handlers, req, parent, name),
              ParentWritable(database, remote, req, parent))

DoSymlink ==
    \E req \in Callers, parent \in ParentArgs, name \in Names :
        Apply("symlink", req, Symlink(database, remote, handlers, req, parent, name, Root),
              ParentWritable(database, remote, req, parent))

DoRename ==
    \E req \in Callers, parent \in ParentArgs, name \in Names,
       newparent \in ParentArgs, newname \in Names :
        Apply("rename", req,
              Rename(database, remote, handlers, req, parent, name, newparent, newname),
              /\ ParentWritable(database, remote, req, parent)
              /\ ParentWritable(database, remote, req, newparent))

DoCreate ==
    \E req \in Callers, parent \in ParentArgs, name \in Names, flags \in 0 .. 3 :
        /\ HandleCount(handlers, req.pid) < MaxCreated
        /\ Apply("create", req,
                 Create(database, remote, handlers, req, parent, name, FileModeArg, flags),
                 ParentWritable(database, remote, req, parent))

NextUnix ==
    \/ DoMknod \/ DoMkdir \/ DoUnlink \/ DoRmdir \/ DoSymlink \/ DoRename \/ DoCreate

SpecUnix == InitUnix /\ [][NextUnix]_vars

(* C4: a mutating callback calls a mutating RemoteFs operation only if the *)
(* caller passes the W_OK check on the parent (on both for rename); when   *)
(* the check fails the reply is EACCES and the remote is unchanged.        *)
C4_MutationNeedsParentWrite ==
    last.op \in MutatingOps =>
        /\ (last.calls \cap MutatingCalls # {}) => last.parentW
        /\ (~last.parentW /\ last.reply # "EINVAL" /\ last.reply # "ENOSYS"
              /\ last.reply # "ENOENT")
               => last.reply = "EACCES" /\ ~last.changed

-----------------------------------------------------------------------------
(* unix.rs: Driver::read, read_tempfile, write and write_wno_stream. A     *)
(* result is [ok, n, buf, err, r, temps, calls]: the Ok count or the Err   *)
(* kind, the caller's buffer, the remote tree and the temporary files      *)
(* after the call, and the RemoteFs calls made.                            *)

MaxData == 2                 \* bytes in the longest file and the longest write
Bytes == {1, 2}              \* 0 is the byte a fresh buffer is filled with
Datas == UNION {[1 .. n -> Bytes] : n \in 0 .. MaxData}
TempName == "tmp"

Min(a, b) == IF a < b THEN a ELSE b
Zeros(n) == [i \in 1 .. n |-> 0]
IsFile(r, path) == path \in DOMAIN r /\ r[path].type = "file"

(* std::io::Read::read on a stream with `remaining` bytes left: it may     *)
(* return any count from 1 up to what fits, and 0 only when nothing fits    *)
(* or nothing is left.                                                      *)
ReadCounts(len, remaining) ==
    IF Min(len, remaining) <= 0 THEN {0} ELSE 1 .. Min(len, remaining)

BridgeOk(n, buf, r, temps, calls) ==
    [ok |-> TRUE, n |-> n, buf |-> buf, err |-> "none", r |-> r, temps |-> temps,
     calls |-> calls]

BridgeErr(err, r, temps, calls) ==
    [ok |-> FALSE, n |-> 0, buf |-> << >>, err |-> err, r |-> r, temps |-> temps,
     calls |-> calls]

(* the NamedTempFile is removed when it goes out of scope *)
DropTemp(temps) == temps \ {TempName}

(* Driver::read_tempfile; tmpOk: the temporary file could be made *)
ReadTempfile(r, temps, path, len, offset, tmpOk) ==
    LET made == temps \cup {TempName}
        data == r[path].data
    IN  IF ~tmpOk THEN BridgeErr("IoError", r, temps, {"open"})
        ELSE IF ~IsFile(r, path)
        THEN BridgeErr("NoSuchFileOrDirectory", r, DropTemp(made), {"open", "open_file"})
        ELSE IF offset > 0 /\ offset > Len(data)
        THEN BridgeErr("IoError", r, DropTemp(made), {"open", "open_file"})
        ELSE IF offset + len > Len(data)
        THEN BridgeErr("IoError", r, DropTemp(made), {"open", "open_file"})
        ELSE BridgeOk(len, SubSeq(data, offset + 1, offset + len), r, DropTemp(made),
                      {"open", "open_file"})

(* Driver::read; k: the count the stream's single read returns *)
DriverRead(r, stream, temps, path, len, offset, k, tmpOk) ==
    IF ~stream THEN ReadTempfile(r, temps, path, len, offset, tmpOk)
    ELSE IF ~IsFile(r, path) THEN BridgeErr("NoSuchFileOrDirectory", r, temps, {"open"})
    ELSE IF offset > 0 /\ offset > Len(r[path].data)
    THEN BridgeErr("IoError", r, temps, {"open"})
    ELSE BridgeOk(k, SubSeq(r[path].data, offset + 1, offset + k) \o Zeros(len - k),
                  r, temps, {"open", "on_read"})

(* Driver::write_wno_stream *)
WriteWnoStream(r, temps, file, data) ==
    LET res == RCreateFile(r, file.path, file.md, data)
    IN  IF res.ok THEN BridgeOk(Len(data), << >>, res.r, temps, {"create", "create_file"})
        ELSE BridgeErr("IoError", r, temps, {"create", "create_file"})

(* Driver::write; create opens the file empty; seekOk: the write stream    *)
(* can seek, and the bytes skipped by the seek read as 0.                  *)
DriverWrite(r, stream, temps, file, data, offset, seekOk) ==
    LET opened == RCreateFile(r, file.path, file.md, << >>)
        done == RCreateFile(r, file.path, file.md, Zeros(offset) \o data)
    IN  IF ~stream /\ offset > 0 THEN BridgeErr("UnsupportedFeature", r, temps, {"create"})
        ELSE IF ~stream THEN WriteWnoStream(r, temps, file, data)
        ELSE IF ~opened.ok THEN BridgeErr("IoError", r, temps, {"create"})
        ELSE IF offset > 0 /\ ~seekOk THEN BridgeErr("IoError", opened.r, temps, {"create"})
        ELSE BridgeOk(Len(data), << >>, done.r, temps, {"create", "on_written"})

-----------------------------------------------------------------------------
(* SpecBridge: Driver::read and Driver::write on the file /a of a backend  *)
(* that streams or does not.                                                *)

BridgePath == <<"a">>
BridgeMode == 420            \* 0o644

Lens == 0 .. MaxData + 1
Offsets == 0 .. MaxData + 1

RootOnly ==
    MapInsert(EmptyMap, Root, Node("dir", Some(493), Some(BackendUid), Some(BackendGid), << >>))

WithFile(data) ==
    MapInsert(RootOnly, BridgePath,
              Node("file", Some(BridgeMode), Some(BackendUid), Some(BackendGid), data))

(* what is left of the file behind `offset` *)
Remaining(r, path, offset) == IF IsFile(r, path) THEN Len(r[path].data) - offset ELSE 0

(* what the caller of Driver::read sees *)
Outcome(res) == [ok |-> res.ok, n |-> res.n, buf |-> res.buf, err |-> res.err]

InitBridge ==
    /\ remote \in {RootOnly} \cup {WithFile(d) : d \in Datas}
    /\ streaming \in BOOLEAN
    /\ tempfiles = {}
    /\ last = NoOp
    /\ handlers = EmptyMap /\ database = EmptyMap
    /\ query = Unused /\ session = Unused

BridgeRead ==
    \E len \in Lens, offset \in Offsets, tmpOk \in BOOLEAN :
    \E k \in ReadCounts(len, Remaining(remote, BridgePath, offset)) :
        LET res == DriverRead(remote, streaming, tempfiles, BridgePath, len, offset, k, tmpOk)
        IN  /\ remote' = res.r
            /\ tempfiles' = res.temps
            /\ last' = [op |-> "read", len |-> len, offset |-> offset, tmpOk |-> tmpOk,
                        out |-> Outcome(res),
                        after |-> IF last.op = "write" /\ last.out.ok /\ last.offset = 0
                                  THEN Some(last.data) ELSE None,
                        asStream |->
                            {Outcome(DriverRead(remote, TRUE, tempfiles, BridgePath,
                                                len, offset, j, tmpOk)) :
                                j \in ReadCounts(len, Remaining(remote, BridgePath, offset))}]
            /\ UNCHANGED <<handlers, database, query, session, streaming>>

BridgeWrite ==
    \E data \in Datas, offset \in 0 .. 1, seekOk \in BOOLEAN :
        /\ IsFile(remote, BridgePath)
        /\ LET res == DriverWrite(remote, streaming, tempfiles,
                                  File(BridgePath, remote[BridgePath]), data, offset, seekOk)
           IN  /\ remote' = res.r
               /\ tempfiles' = res.temps
               /\ last' = [op |-> "write", data |-> data, offset |-> offset,
                           out |-> Outcome(res)]
        /\ UNCHANGED <<handlers, database, query, session, streaming>>

NextBridge == BridgeRead \/ BridgeWrite

SpecBridge == InitBridge /\ [][NextBridge]_vars

C10_TempfileEqualsStreaming ==
    (~streaming /\ last.op = "read") =>
        /\ tempfiles = {}
        /\ last.tmpOk => last.out \in last.asStream

-----------------------------------------------------------------------------
(* unix.rs: open, opendir, read, write, release and releasedir. Each       *)
(* yields the Driver's state after the call (db, r, h, temps), the reply,  *)
(* the RemoteFs calls made, the handle number replied and the bytes        *)
(* replied.                                                                 *)

FOut(db, r, h, temps, reply, calls) ==
    [db |-> db, r |-> r, h |-> h, temps |-> temps, reply |-> reply, calls |-> calls,
     fh |-> None, data |-> << >>]

(* an open that registers the handle before it looks at the file *)
OpenWithEager(db, r, h, temps, req, ino, access_mask, read, write) ==
    LET g == GetInode(db, r, ino)
        put == DbPut(h, req.pid, ino, read, write)
    IN  IF ~g.ok THEN FOut(g.db, r, put.db, temps, "ENOENT", g.calls)
        ELSE IF ~CheckAccess(g.file.md, req.uid, req.gid, access_mask)
        THEN FOut(g.db, r, put.db, temps, "EACCES", g.calls)
        ELSE [db |-> g.db, r |-> r, h |-> put.db, temps |-> temps, reply |-> "opened",
              calls |-> g.calls, fh |-> Some(put.fh), data |-> << >>]

(* the body shared by open and opendir once the flags are decoded *)
OpenWith(db, r, h, temps, req, ino, access_mask, read, write) ==
    LET g == GetInode(db, r, ino)
        put == DbPut(h, req.pid, ino, read, write)
    IN  IF ~g.ok THEN FOut(g.db, r, h, temps, "ENOENT", g.calls)
        ELSE IF ~CheckAccess(g.file.md, req.uid, req.gid, access_mask)
        THEN FOut(g.db, r, h, temps, "EACCES", g.calls)
        ELSE [db |-> g.db, r |-> r, h |-> put.db, temps |-> temps, reply |-> "opened",
              calls |-> g.calls, fh |-> Some(put.fh), data |-> << >>]

Open(db, r, h, temps, req, ino, flags) ==
    LET acc == BitAnd(flags, O_ACCMODE)
    IN  IF acc = O_RDONLY
        THEN IF BitAnd(flags, O_TRUNC) # 0 THEN FOut(db, r, h, temps, "EACCES", {})
             ELSE IF BitAnd(flags, FMODE_EXEC) # 0
             THEN OpenWith(db, r, h, temps, req, ino, X_OK, TRUE, FALSE)
             ELSE OpenWith(db, r, h, temps, req, ino, R_OK, TRUE, FALSE)
        ELSE IF acc = O_WRONLY THEN OpenWith(db, r, h, temps, req, ino, W_OK, FALSE, TRUE)
        ELSE IF acc = O_RDWR
        THEN OpenWith(db, r, h, temps, req, ino, BitOr(R_OK, W_OK), TRUE, TRUE)
        ELSE FOut(db, r, h, temps, "EINVAL", {})

Opendir(db, r, h, temps, req, ino, flags) ==
    LET acc == BitAnd(flags, O_ACCMODE)
    IN  IF acc = O_RDONLY
        THEN IF BitAnd(flags, O_TRUNC) # 0 THEN FOut(db, r, h, temps, "EACCES", {})
             ELSE OpenWith(db, r, h, temps, req, ino, R_OK, TRUE, FALSE)
        ELSE IF acc = O_WRONLY THEN OpenWith(db, r, h, temps, req, ino, W_OK, FALSE, TRUE)
        ELSE IF acc = O_RDWR
        THEN OpenWith(db, r, h, temps, req, ino, BitOr(R_OK, W_OK), TRUE, TRUE)
        ELSE FOut(db, r, h, temps, "EINVAL", {})

(* u64::saturating_sub *)
SaturatingSub(a, b) == IF a > b THEN a - b ELSE 0

(* an entry offset that counts from the start of every reply *)
EntryOffsetRestart(offset, index) == index + 1

(* a read check that accepts the handle number of any process *)
HandleReadsAnyPid(h, pid, fh) == \E p \in DOMAIN h : \E x \in DbGet(h, p, fh) : x.read

(* the handle of (pid, fh) has the flag: get(..).map(..).unwrap_or_default() *)
HandleReads(h, pid, fh) == \E x \in DbGet(h, pid, fh) : x.read
HandleWrites(h, pid, fh) == \E x \in DbGet(h, pid, fh) : x.write

(* Filesystem::read; k and tmpOk as in DriverRead *)
Read(db, r, h, temps, stream, req, ino, fh, offset, size, k, tmpOk) ==
    LET g == GetInode(db, r, ino)
        read_size == Min(size, SaturatingSub(g.file.size, offset))
        res == DriverRead(r, stream, temps, g.file.path, read_size, offset, k, tmpOk)
    IN  IF ~HandleReads(h, req.pid, fh) THEN FOut(db, r, h, temps, "EACCES", {})
        ELSE IF offset < 0 THEN FOut(db, r, h, temps, "EINVAL", {})
        ELSE IF ~g.ok THEN FOut(g.db, r, h, temps, "ENOENT", g.calls)
        ELSE IF ~res.ok THEN FOut(g.db, res.r, h, res.temps, "EIO", g.calls \cup res.calls)
        ELSE [db |-> g.db, r |-> res.r, h |-> h, temps |-> res.temps, reply |-> "data",
              calls |-> g.calls \cup res.calls, fh |-> None, data |-> res.buf]

(* Filesystem::write; seekOk as in DriverWrite *)
Write(db, r, h, temps, stream, req, ino, fh, offset, data, seekOk) ==
    LET g == GetInode(db, r, ino)
        res == DriverWrite(r, stream, temps, g.file, data, offset, seekOk)
    IN  IF ~HandleWrites(h, req.pid, fh) THEN FOut(db, r, h, temps, "EACCES", {})
        ELSE IF offset < 0 THEN FOut(db, r, h, temps, "EINVAL", {})
        ELSE IF ~g.ok THEN FOut(g.db, r, h, temps, "ENOENT", g.calls)
        ELSE IF ~res.ok THEN FOut(g.db, res.r, h, res.temps, "EIO", g.calls \cup res.calls)
        ELSE FOut(g.db, res.r, h, res.temps, "written", g.calls \cup res.calls)

(* a release that replies ok and leaves the handle in the table *)
ReleaseKeepsHandle(db, r, h, temps, req, fh) ==
    IF DbGet(h, req.pid, fh) = None THEN FOut(db, r, h, temps, "ENOENT", {})
    ELSE FOut(db, r, h, temps, "ok", {})

(* Filesystem::flush *)
Flush(db, r, h, temps, req, fh) ==
    IF DbGet(h, req.pid, fh) = None THEN FOut(db, r, h, temps, "ENOENT", {})
    ELSE FOut(db, r, h, temps, "ok", {})

(* Filesystem::fsync: neither the request nor fh is looked at *)
Fsync(db, r, h, temps, req, fh) == FOut(db, r, h, temps, "ok", {})

(* Filesystem::fsyncdir *)
Fsyncdir(db, r, h, temps, req, fh) ==
    IF DbGet(h, req.pid, fh) = None THEN FOut(db, r, h, temps, "ENOENT", {})
    ELSE FOut(db, r, h, temps, "ok", {})

Release(db, r, h, temps, req, fh) ==
    IF DbGet(h, req.pid, fh) = None THEN FOut(db, r, h, temps, "ENOENT", {})
    ELSE FOut(db, r, DbClose(h, req.pid, fh), temps, "ok", {})

Releasedir(db, r, h, temps, req, fh) ==
    IF DbGet(h, req.pid, fh) = None THEN FOut(db, r, h, temps, "ENOENT", {})
    ELSE FOut(db, r, DbClose(h, req.pid, fh), temps, "ok", {})

-----------------------------------------------------------------------------
(* SpecFiles: two users open, read, write and release the file /a and the  *)
(* directory /b, whose inodes the kernel already knows from lookups.       *)

FilePath == <<"a">>
DirPath == <<"b">>
FileMode == 492              \* 0o754: the owner may all, the others only read
DirMode == 493               \* 0o755
FileData == <<1, 2>>
WriteData == <<2, 1>>
ReadSize == 2
OpenFlags == {O_RDONLY, O_WRONLY, O_RDWR, O_ACCMODE, O_TRUNC, FMODE_EXEC}
FileOffsets == {-1, 0, 1}
SomeFhs == {0, 1}
Errnos == {"EACCES", "EINVAL", "ENOENT", "EIO", "ENOSYS"}

FilesTree ==
    MapInsert(MapInsert(RootOnly, FilePath,
                  Node("file", Some(FileMode), Some(BackendUid), Some(BackendGid), FileData)),
              DirPath,
              Node("dir", Some(DirMode), Some(BackendUid), Some(BackendGid), << >>))

FilesInodes ==
    MapInsert(MapInsert(MapInsert(EmptyMap, ROOT_INODE, Root), Inode(FilePath), FilePath),
              Inode(DirPath), DirPath)

(* the access masks the caller passes on the file behind ino *)
Allowed(db, r, req, ino) ==
    {m \in 0 .. 7 : /\ ino \in DOMAIN db
                    /\ db[ino] \in DOMAIN r
                    /\ CheckAccess(r[db[ino]].md, req.uid, req.gid, m)}

(* the counts the stream may return to the read callback *)
StreamCounts(db, r, ino, offset, size) ==
    IF ino \in DOMAIN db /\ IsFile(r, db[ino]) /\ offset >= 0
    THEN ReadCounts(Min(size, SaturatingSub(Len(r[db[ino]].data), offset)),
                    Len(r[db[ino]].data) - offset)
    ELSE {0}

(* a run is a bounded number of callbacks *)
Running == last.n < MaxSteps

ApplyFile(op, req, ino, fh, arg, res) ==
    /\ database' = res.db
    /\ remote' = res.r
    /\ handlers' = res.h
    /\ tempfiles' = res.temps
    /\ last' = [op |-> op, pid |-> req.pid, ino |-> ino, fh |-> fh, arg |-> arg,
                reply |-> res.reply, calls |-> res.calls, newfh |-> res.fh,
                data |-> res.data,
                held |-> DbGet(handlers, req.pid, fh),
                known |-> ino \in DOMAIN database /\ database[ino] \in DOMAIN remote,
                may |-> Allowed(database, remote, req, ino),
                hsame |-> res.h = handlers,
                reg |-> UNION {DbGet(res.h, req.pid, x) : x \in res.fh},
                n |-> last.n + 1]
    /\ UNCHANGED <<query, session, streaming>>

InitFiles ==
    /\ remote = FilesTree
    /\ database = FilesInodes
    /\ handlers = EmptyMap
    /\ streaming \in BOOLEAN
    /\ tempfiles = {}
    /\ last = NoOp
    /\ query = Unused /\ session = Unused

DoOpen ==
    \E req \in Callers, ino \in {Inode(FilePath), UnknownInode}, flags \in OpenFlags :
        /\ Running
        /\ HandleCount(handlers, req.pid) < MaxOpen
        /\ ApplyFile("open", req, ino, 0, flags,
                     Open(database, remote, handlers, tempfiles, req, ino, flags))

DoOpendir ==
    \E req \in Callers, ino \in {Inode(DirPath), UnknownInode}, flags \in OpenFlags :
        /\ Running
        /\ HandleCount(handlers, req.pid) < MaxOpen
        /\ ApplyFile("opendir", req, ino, 0, flags,
                     Opendir(database, remote, handlers, tempfiles, req, ino, flags))

DoRead ==
    \E req \in Callers, ino \in {Inode(FilePath), UnknownInode}, fh \in SomeFhs,
       offset \in FileOffsets, tmpOk \in BOOLEAN :
    \E k \in StreamCounts(database, remote, ino, offset, ReadSize) :
        /\ Running
        /\ ApplyFile("read", req, ino, fh, offset,
                     Read(database, remote, handlers, tempfiles, streaming, req, ino, fh,
                          offset, ReadSize, k, tmpOk))

DoWrite ==
    \E req \in Callers, ino \in {Inode(FilePath), UnknownInode}, fh \in SomeFhs,
       offset \in FileOffsets :
        /\ Running
        /\ ApplyFile("write", req, ino, fh, offset,
                     Write(database, remote, handlers, tempfiles, streaming, req, ino, fh,
                           offset, WriteData, TRUE))

DoRelease ==
    \E req \in Callers, fh \in SomeFhs :
        /\ Running
        /\ ApplyFile("release", req, Inode(FilePath), fh, 0,
                     Release(database, remote, handlers, tempfiles, req, fh))

DoReleasedir ==
    \E req \in Callers, fh \in SomeFhs :
        /\ Running
        /\ ApplyFile("releasedir", req, Inode(DirPath), fh, 0,
                     Releasedir(database, remote, handlers, tempfiles, req, fh))

NextFiles == DoOpen \/ DoOpendir \/ DoRead \/ DoWrite \/ DoRelease \/ DoReleasedir

SpecFiles == InitFiles /\ [][NextFiles]_vars

(* C6: the read (write) callback replies data (writes) and calls the       *)
(* RemoteFs only if the caller's pid holds fh with read (write) set; with   *)
(* no such handle, or with offset < 0, it replies an error and makes no     *)
(* RemoteFs call at all; a negative offset on a good handle is EINVAL.      *)
C6_ReadWriteNeedHandleFlag ==
    /\ last.op = "read" =>
        LET has == \E x \in last.held : x.read
        IN  /\ (~has \/ last.arg < 0) => last.reply \in Errnos /\ last.calls = {}
            /\ (has /\ last.arg < 0) => last.reply = "EINVAL"
            /\ (last.reply = "data" \/ last.calls # {}) => has
    /\ last.op = "write" =>
        LET has == \E x \in last.held : x.write
        IN  /\ (~has \/ last.arg < 0) => last.reply \in Errnos /\ last.calls = {}
            /\ (has /\ last.arg < 0) => last.reply = "EINVAL"
            /\ (last.reply = "written" \/ last.calls # {}) => has

(* a read through a handle number that only the other process holds *)
C6_Witness ==
    /\ last.op = "read" /\ last.reply = "EACCES" /\ last.held = None
    /\ \E p \in DOMAIN handlers : \E x \in DbGet(handlers, p, last.fh) : x.read

(* the decoding of the open flags, from the claim: bit tests by division *)
HasFlag(flags, bit) == (flags \div bit) % 2 = 1

RefOpen(op, flags) ==
    LET acc == flags % 4
    IN  IF acc = 3 THEN [err |-> "EINVAL"]
        ELSE IF acc = 0 /\ HasFlag(flags, 512) THEN [err |-> "EACCES"]
        ELSE IF acc = 0
        THEN [err |-> "none", read |-> TRUE, write |-> FALSE,
              need |-> IF op = "open" /\ HasFlag(flags, 32) THEN 1 ELSE 4]
        ELSE IF acc = 1 THEN [err |-> "none", read |-> FALSE, write |-> TRUE, need |-> 2]
        ELSE [err |-> "none", read |-> TRUE, write |-> TRUE, need |-> 6]

(* C7: open and opendir reply as the decoding says, and the handle table   *)
(* changes only on success, by the handle (ino, read, write) of the caller. *)
C7_OpenDecodesFlags ==
    last.op \in {"open", "opendir"} =>
        LET ref == RefOpen(last.op, last.arg)
        IN  IF ref.err # "none" THEN last.reply = ref.err /\ last.hsame
            ELSE IF ~last.known THEN last.reply = "ENOENT" /\ last.hsame
            ELSE IF ref.need \notin last.may THEN last.reply = "EACCES" /\ last.hsame
            ELSE /\ last.reply = "opened"
                 /\ last.reg = Some(FileHandle(last.ino, ref.read, ref.write))

(* a denied open while the table holds a handle *)
C7_Witness ==
    /\ last.op = "open" /\ last.arg = O_WRONLY /\ last.reply = "EACCES"
    /\ handlers # EmptyMap

-----------------------------------------------------------------------------
(* unix.rs: readdir. list_dir returns the children in the backend's order, *)
(* here the order of their inode numbers, the same at every call.          *)

RECURSIVE InodeOrder(_)
InodeOrder(S) ==
    IF S = {} THEN << >>
    ELSE LET first == CHOOSE p \in S : \A q \in S : Inode(p) <= Inode(q)
         IN  <<first>> \o InodeOrder(S \ {first})

ListDir(r, path) ==
    IF IsDir(r, path)
    THEN [ok |-> TRUE,
          entries |-> [i \in 1 .. Cardinality(Children(r, path)) |->
                          File(InodeOrder(Children(r, path))[i],
                               r[InodeOrder(Children(r, path))[i]])]]
    ELSE [ok |-> FALSE, entries |-> << >>]

(* the offset readdir attaches to the entry at `index` behind the skip *)
EntryOffset(offset, index) == offset + index + 1

(* Filesystem::readdir; cap: the entries the reply buffer takes before     *)
(* reply.add reports it full. A negative offset skips every entry.         *)
Readdir(db, r, h, temps, req, ino, fh, offset, cap) ==
    LET held == DbGet(h, req.pid, fh)
        g == GetInode(db, r, ino)
        ls == ListDir(r, g.file.path)
        skip == IF offset < 0 THEN Len(ls.entries) ELSE Min(offset, Len(ls.entries))
        taken == Min(cap, Len(ls.entries) - skip)
        out == [i \in 1 .. taken |->
                   [ino |-> Inode(ls.entries[skip + i].path),
                    offset |-> EntryOffset(offset, i - 1),
                    kind |-> ls.entries[skip + i].type,
                    name |-> ls.entries[skip + i].path[Len(ls.entries[skip + i].path)]]]
    IN  IF held = None THEN FOut(db, r, h, temps, "ENOENT", {})
        ELSE IF \E x \in held : ~x.read THEN FOut(db, r, h, temps, "EACCES", {})
        ELSE IF ~g.ok THEN FOut(g.db, r, h, temps, "ENOENT", g.calls)
        ELSE IF ~ls.ok THEN FOut(g.db, r, h, temps, "EIO", g.calls \cup {"list_dir"})
        ELSE [db |-> g.db, r |-> r, h |-> h, temps |-> temps, reply |-> "dir",
              calls |-> g.calls \cup {"list_dir"}, fh |-> None, data |-> out]

-----------------------------------------------------------------------------
(* SpecReaddir: a process opens the root directory and lists it with one   *)
(* readdir call after another, each from the offset of the last entry it   *)
(* was given, until a reply comes back empty; the kernel's buffer takes     *)
(* any number of entries from 1 to MaxCap at each call.                     *)

MaxCap == 2                  \* entries the largest reply buffer takes
EntryNames == {"a", "b", "c"}
EntryTypes == {"none", "file", "dir"}
ListedMode == 511            \* 0o777

(* the root directory with the children that `pick` gives a type *)
ListedTree(pick) ==
    [p \in {Root} \cup {<<n>> : n \in {m \in EntryNames : pick[m] # "none"}} |->
        IF p = Root
        THEN Node("dir", Some(ListedMode), Some(BackendUid), Some(BackendGid), << >>)
        ELSE Node(pick[p[1]], Some(FileMode), Some(BackendUid), Some(BackendGid), << >>)]

Idle == [state |-> "idle"]

EntryNamesOf(entries) == [i \in 1 .. Len(entries) |-> entries[i].name]

InitReaddir ==
    /\ \E pick \in [EntryNames -> EntryTypes] : remote = ListedTree(pick)
    /\ database = MapInsert(EmptyMap, ROOT_INODE, Root)
    /\ handlers = EmptyMap
    /\ session = Idle
    /\ tempfiles = {}
    /\ last = NoOp
    /\ query = Unused /\ streaming = Unused

StartListing ==
    \E req \in Callers, flags \in {O_RDONLY, O_WRONLY, O_RDWR} :
        LET res == Opendir(database, remote, handlers, tempfiles, req, ROOT_INODE, flags)
        IN  /\ session.state = "idle"
            /\ database' = res.db /\ remote' = res.r /\ handlers' = res.h
            /\ tempfiles' = res.temps
            /\ session' = IF res.reply = "opened"
                          THEN [state |-> "listing", req |-> req,
                                fh |-> CHOOSE x \in res.fh : TRUE,
                                read |-> flags # O_WRONLY, offset |-> 0,
                                emitted |-> << >>, calls |-> 0]
                          ELSE session
            /\ last' = [op |-> "opendir", reply |-> res.reply, n |-> 0]
            /\ UNCHANGED <<query, streaming>>

ListMore ==
    \E cap \in 1 .. MaxCap :
        /\ session.state = "listing"
        /\ LET res == Readdir(database, remote, handlers, tempfiles, session.req,
                              ROOT_INODE, session.fh, session.offset, cap)
           IN  /\ database' = res.db /\ remote' = res.r /\ handlers' = res.h
               /\ tempfiles' = res.temps
               /\ session' =
                     IF res.reply # "dir" THEN [session EXCEPT !.state = "failed"]
                     ELSE IF res.data = << >> THEN [session EXCEPT !.state = "done"]
                     ELSE [session EXCEPT
                              !.offset = res.data[Len(res.data)].offset,
                              !.emitted = @ \o EntryNamesOf(res.data),
                              !.calls = @ + 1]
               /\ last' = [op |-> "readdir", reply |-> res.reply, n |-> Len(res.data)]
        /\ UNCHANGED <<query, streaming>>

EndListing ==
    /\ session.state \in {"done", "failed"}
    /\ LET res == Releasedir(database, remote, handlers, tempfiles, session.req, session.fh)
       IN  /\ database' = res.db /\ remote' = res.r /\ handlers' = res.h
           /\ tempfiles' = res.temps
           /\ last' = [op |-> "releasedir", reply |-> res.reply, n |-> 0]
    /\ session' = Idle
    /\ UNCHANGED <<query, streaming>>

NextReaddir == StartListing \/ ListMore \/ EndListing

SpecReaddir == InitReaddir /\ [][NextReaddir]_vars

(* the names list_dir gives for the root directory, in its order *)
ListedNames ==
    [i \in 1 .. Len(ListDir(remote, Root).entries) |->
        ListDir(remote, Root).entries[i].path[1]]

(* C9: through a read handle, what the readdir calls of a listing have     *)
(* emitted so far is the listing's beginning, each entry once and in        *)
(* order, and it is the whole listing when the empty reply has come.        *)
C9_ListingComplete ==
    (session.state \in {"listing", "done"} /\ session.read) =>
        /\ Len(session.emitted) <= Len(ListedNames)
        /\ session.emitted = SubSeq(ListedNames, 1, Len(session.emitted))
        /\ session.state = "done" => session.emitted = ListedNames

(* a listing of three entries that took more than one reply to finish *)
C9_Witness ==
    /\ session.state = "done" /\ session.read
    /\ Len(session.emitted) = 3 /\ session.calls >= 2

-----------------------------------------------------------------------------
(* inode.rs: InodeDb, and the callbacks lookup, getattr and forget.        *)

(* InodeDb::load *)
InodeLoad == MapInsert(EmptyMap, ROOT_INODE, Root)

(* a forget without the guard for the root *)
InodeForgetAny(db, inode) == MapRemove(db, inode)

(* InodeDb::forget *)
InodeForget(db, inode) == IF inode = ROOT_INODE THEN db ELSE MapRemove(db, inode)

(* InodeDb::get *)
InodeGet(db, inode) == IF inode \in DOMAIN db THEN Some(db[inode]) ELSE None

(* a lookup that replies the attributes without the X_OK check *)
LookupSkipsAccess(db, r, h, req, parent, name) ==
    LET lk == LookupName(db, parent, name)
        g == GetInodeFromPath(lk.db, r, UnwrapOr(lk.path, Root))
    IN  IF lk.path = None THEN Out(lk.db, r, h, "ENOENT", {})
        ELSE IF ~g.ok THEN Out(g.db, r, h, "ENOENT", g.calls)
        ELSE OutEntry(g.db, r, h, "entry", g.calls, g.attrs)

(* Filesystem::lookup *)
Lookup(db, r, h, req, parent, name) ==
    LET lk == LookupName(db, parent, name)
        g == GetInodeFromPath(lk.db, r, UnwrapOr(lk.path, Root))
    IN  IF lk.path = None THEN Out(lk.db, r, h, "ENOENT", {})
        ELSE IF ~g.ok THEN Out(g.db, r, h, "ENOENT", g.calls)
        ELSE IF ~CheckAccess(g.file.md, req.uid, req.gid, X_OK)
        THEN Out(g.db, r, h, "EACCES", g.calls)
        ELSE OutEntry(g.db, r, h, "entry", g.calls, g.attrs)

(* Filesystem::getattr *)
Getattr(db, r, h, ino) ==
    LET g == GetInode(db, r, ino)
    IN  IF ~g.ok THEN Out(g.db, r, h, "ENOENT", g.calls)
        ELSE OutEntry(g.db, r, h, "attr", g.calls, g.attrs)

(* Filesystem::forget: no reply is sent *)
Forget(db, r, h, ino) == Out(InodeForget(db, ino), r, h, "none", {})

-----------------------------------------------------------------------------
(* SpecInodes: the callbacks that read or change the InodeDb, on a remote  *)
(* that holds the root alone or the root with /a and /a/b.                  *)

Owner == Req(BackendUid, BackendGid, 1)

InodesTree ==
    MapInsert(MapInsert(RootOnly, <<"a">>,
                  Node("dir", Some(DirMode), Some(BackendUid), Some(BackendGid), << >>)),
              <<"a", "b">>,
              Node("file", Some(FileMode), Some(BackendUid), Some(BackendGid), FileData))

(* the inodes a callback may name: those the table holds and one it does not *)
InodeArgs == DOMAIN database \cup {UnknownInode}

ApplyInode(op, ino, res) ==
    /\ database' = res.db
    /\ remote' = res.r
    /\ handlers' = res.h
    /\ last' = [op |-> op, ino |-> ino, reply |-> res.reply, attrs |-> res.attrs,
                n |-> last.n + 1]
    /\ UNCHANGED <<query, session, tempfiles, streaming>>

InitInodes ==
    /\ remote \in {RootOnly, InodesTree}
    /\ database = InodeLoad
    /\ handlers = EmptyMap
    /\ last = NoOp
    /\ query = Unused /\ session = Unused /\ tempfiles = {} /\ streaming = Unused

InoLookup ==
    \E req \in Callers, parent \in ParentArgs, name \in Names :
        /\ Running
        /\ ApplyInode("lookup", parent, Lookup(database, remote, handlers, req, parent, name))

InoGetattr ==
    \E ino \in InodeArgs :
        /\ Running
        /\ ApplyInode("getattr", ino, Getattr(database, remote, handlers, ino))

InoForget ==
    \E ino \in InodeArgs :
        /\ Running
        /\ ApplyInode("forget", ino, Forget(database, remote, handlers, ino))

InoMknod ==
    \E parent \in ParentArgs, name \in Names :
        /\ Running
        /\ ApplyInode("mknod", parent,
                      Mknod(database, remote, handlers, Owner, parent, name,
                            S_IFREG + FileModeArg))

InoMkdir ==
    \E parent \in ParentArgs, name \in Names :
        /\ Running
        /\ ApplyInode("mkdir", parent,
                      Mkdir(database, remote, handlers, Owner, parent, name, DirMode))

InoCreate ==
    \E parent \in ParentArgs, name \in Names :
        /\ Running
        /\ HandleCount(handlers, Owner.pid) < MaxCreated
        /\ ApplyInode("create", parent,
                      Create(database, remote, handlers, Owner, parent, name,
                             FileModeArg, O_RDWR))

InoRename ==
    \E parent \in ParentArgs, name \in Names, newparent \in ParentArgs \ {UnknownInode},
       newname \in Names :
        /\ Running
        /\ ApplyInode("rename", parent,
                      Rename(database, remote, handlers, Owner, parent, name,
                             newparent, newname))

InoOpendir ==
    \E ino \in InodeArgs :
        /\ Running
        /\ HandleCount(handlers, Owner.pid) < MaxCreated
        /\ LET res == Opendir(database, remote, handlers, tempfiles, Owner, ino, O_RDONLY)
           IN  ApplyInode("opendir", ino, Out(res.db, res.r, res.h, res.reply, res.calls))

InoReaddir ==
    \E ino \in InodeArgs, fh \in SomeFhs, cap \in 1 .. MaxCap :
        /\ Running
        /\ LET res == Readdir(database, remote, handlers, tempfiles, Owner, ino, fh, 0, cap)
           IN  ApplyInode("readdir", ino, Out(res.db, res.r, res.h, res.reply, res.calls))

NextInodes ==
    \/ InoLookup \/ InoGetattr \/ InoForget \/ InoMknod \/ InoMkdir \/ InoCreate
    \/ InoRename \/ InoOpendir \/ InoReaddir

SpecInodes == InitInodes /\ [][NextInodes]_vars

(* C11: whatever callbacks have run, forget(1) among them, the InodeDb     *)
(* maps the root inode 1 to the path "/".                                   *)
C11_RootImmortal == InodeGet(database, ROOT_INODE) = Some(Root)

(* the root inode has just been forgotten *)
C11_Witness == last.op = "forget" /\ last.ino = ROOT_INODE

(* C12: every key of the InodeDb but the root's is the hash of the path    *)
(* it maps to.                                                              *)
C12_KeysAreHashes ==
    \A i \in DOMAIN database \ {ROOT_INODE} : Inode(database[i]) = i

(* a rename has succeeded and filed its destination *)
C12_Witness ==
    /\ last.op = "rename" /\ last.reply = "ok"
    /\ \E i \in DOMAIN database \ {ROOT_INODE} : Len(database[i]) = 2

(* C13: the attributes getattr(i) replies carry ino = i, for the root      *)
(* inode 1 as for every other inode of the table.                           *)
C13_AttrsCarryInode ==
    (last.op = "getattr" /\ last.reply = "attr") =>
        \A a \in last.attrs : a.ino = last.ino

-----------------------------------------------------------------------------
(* windows.rs: the Dokan face of the Driver.  The Driver is the record     *)
(* d = [r, fh, stats]: the RemoteFs tree, the file_handlers cache that     *)
(* maps a file name to its Arc<RwLock<Stat>>, and the Stat objects that    *)
(* cache or context still refer to.  File names are written in one case.   *)

FILE_SUPERSEDE == 0
FILE_OPEN == 1
FILE_CREATE == 2
FILE_OPEN_IF == 3
FILE_OVERWRITE == 4
FILE_OVERWRITE_IF == 5
FILE_MAXIMUM_DISPOSITION == 5

NewFileMode == 420           \* 0o644
NewDirMode == 493            \* 0o755
WriteBits == 146             \* 0o222

MaxContexts == 2             \* file objects open at a time
WinNames == {<<"a">>, <<"b">>}
StatIds == 1 .. (Cardinality(WinNames) + MaxContexts)

(* Stat::new; sec_desc and handle_count are never read by the callbacks *)
StatNew(file) ==
    [file |-> file, delete_pending |-> FALSE, delete_on_close |-> FALSE,
     alt_streams |-> EmptyMap]

(* AltStream::new *)
AltStreamNew == [delete_pending |-> FALSE]

(* a fresh Arc: the least identity no Stat object carries *)
FreshStat(stats) ==
    CHOOSE i \in StatIds \ DOMAIN stats : \A j \in StatIds \ DOMAIN stats : i <= j

(* Driver::stat *)
Stat(d, file_name) ==
    IF file_name \in DOMAIN d.fh
    THEN [ok |-> TRUE, d |-> d, stat |-> d.fh[file_name]]
    ELSE IF file_name \notin DOMAIN d.r
    THEN [ok |-> FALSE, d |-> d, stat |-> 0]
    ELSE LET id == FreshStat(d.stats)
         IN  [ok |-> TRUE,
              d |-> [d EXCEPT !.fh = MapInsert(@, file_name, id),
                              !.stats = MapInsert(@, id,
                                           StatNew(File(file_name, d.r[file_name])))],
              stat |-> id]

(* the context of a file object *)
StatHandle(stat, alt_stream, delete_on_close) ==
    [stat |-> stat, alt_stream |-> alt_stream, delete_on_close |-> delete_on_close]

(* what a callback gives back: the Driver after it, the status, and for    *)
(* create_file the CreateFileInfo                                           *)
WErr(d, status) ==
    [d |-> d, reply |-> status, context |-> None, is_dir |-> FALSE,
     new_file_created |-> FALSE]
WOk(d) == WErr(d, "STATUS_SUCCESS")
CreateFileInfo(d, context, is_dir, new_file_created) ==
    [d |-> d, reply |-> "STATUS_SUCCESS", context |-> Some(context), is_dir |-> is_dir,
     new_file_created |-> new_file_created]

(* create_file: is_readonly *)
IsReadonly(file) ==
    IF file.md.mode = None THEN FALSE
    ELSE BitAnd(UnwrapOr(file.md.mode, 0), WriteBits) = 0

(* create_file, the block that computes `ret`: the stream of the Stat      *)
(* filed under the file name, opened or made.  It ends in an early return   *)
(* (err) or in Some((stream, new_file_created)).                            *)
AltStreamRet(d, id, file_name, create_disposition, is_readonly) ==
    LET st == d.stats[id]
        fail(status) == [d |-> d, err |-> Some(status), ret |-> None]
    IN  IF file_name \in DOMAIN st.alt_streams
        THEN IF st.alt_streams[file_name].delete_pending
             THEN fail("STATUS_DELETE_PENDING")
             ELSE IF /\ create_disposition \in {FILE_OVERWRITE, FILE_OVERWRITE_IF}
                     /\ is_readonly
             THEN fail("STATUS_ACCESS_DENIED")
             ELSE IF create_disposition = FILE_CREATE
             THEN fail("STATUS_OBJECT_NAME_COLLISION")
             ELSE [d |-> d, err |-> None,
                   ret |-> Some([stream |-> file_name, new_file_created |-> FALSE])]
        ELSE IF create_disposition \in {FILE_OPEN, FILE_OVERWRITE}
             THEN fail("STATUS_OBJECT_NAME_NOT_FOUND")
             ELSE IF is_readonly THEN fail("STATUS_ACCESS_DENIED")
             ELSE [d |-> [d EXCEPT !.stats[id].alt_streams =
                                      MapInsert(@, file_name, AltStreamNew)],
                   err |-> None,
                   ret |-> Some([stream |-> file_name, new_file_created |-> TRUE])]

(* create_file, the arms that open the entry itself when `ret` is None *)
OpenEntry(d, id, create_disposition, create_options, delete_on_close, is_readonly) ==
    IF d.stats[id].file.type = "file"
    THEN IF "FILE_DIRECTORY_FILE" \in create_options
         THEN WErr(d, "STATUS_NOT_A_DIRECTORY")
         ELSE IF /\ create_disposition \in {FILE_OVERWRITE, FILE_OVERWRITE_IF}
                 /\ is_readonly
         THEN WErr(d, "STATUS_ACCESS_DENIED")
         ELSE IF create_disposition = FILE_CREATE
         THEN WErr(d, "STATUS_OBJECT_NAME_COLLISION")
         ELSE CreateFileInfo(d, StatHandle(id, None, delete_on_close), FALSE, FALSE)
    ELSE IF "FILE_NON_DIRECTORY_FILE" \in create_options
         THEN WErr(d, "STATUS_FILE_IS_A_DIRECTORY")
         ELSE IF create_disposition \in {FILE_OPEN, FILE_OPEN_IF}
         THEN CreateFileInfo(d, StatHandle(id, None, delete_on_close), TRUE, FALSE)
         ELSE IF create_disposition = FILE_CREATE
         THEN WErr(d, "STATUS_OBJECT_NAME_COLLISION")
         ELSE WErr(d, "STATUS_INVALID_PARAMETER")

(* create_file when Driver::stat found the name *)
CreateOnStat(d, id, file_name, desired_write, create_disposition, create_options) ==
    LET st == d.stats[id]
        is_readonly == IsReadonly(st.file)
        delete_on_close == "FILE_DELETE_ON_CLOSE" \in create_options
        a == AltStreamRet(d, id, file_name, create_disposition, is_readonly)
    IN  IF is_readonly /\ desired_write THEN WErr(d, "STATUS_ACCESS_DENIED")
        ELSE IF st.delete_pending THEN WErr(d, "STATUS_DELETE_PENDING")
        ELSE IF is_readonly /\ delete_on_close THEN WErr(d, "STATUS_CANNOT_DELETE")
        ELSE IF a.err # None THEN WErr(a.d, UnwrapOr(a.err, ""))
        ELSE IF a.ret # None
        THEN CreateFileInfo(a.d,
                 StatHandle(id, Some(UnwrapOr(a.ret, [stream |-> << >>]).stream),
                            delete_on_close),
                 FALSE, UnwrapOr(a.ret, [new_file_created |-> FALSE]).new_file_created)
        ELSE OpenEntry(a.d, id, create_disposition, create_options, delete_on_close,
                       is_readonly)

(* create_file when Driver::stat failed and the disposition is FILE_OPEN   *)
(* or FILE_OPEN_IF: Driver::write of an empty file, or create_dir           *)
CreateOnMissing(d, file_name, create_options) ==
    LET delete_on_close == "FILE_DELETE_ON_CLOSE" \in create_options
        is_file == "FILE_NON_DIRECTORY_FILE" \in create_options
        made == IF is_file
                THEN RCreateFile(d.r, file_name, Metadata(Some(NewFileMode), None, None),
                                 << >>)
                ELSE RCreateDir(d.r, file_name, NewDirMode)
        s == Stat([d EXCEPT !.r = made.r], file_name)
    IN  IF ~made.ok THEN WErr(d, "STATUS_CONNECTION_DISCONNECTED")
        ELSE IF ~s.ok THEN WErr(s.d, "STATUS_CONNECTION_DISCONNECTED")
        ELSE CreateFileInfo(s.d, StatHandle(s.stat, None, delete_on_close),
                            ~is_file, TRUE)

(* FileSystemHandler::create_file *)
CreateFile(d, file_name, desired_write, create_disposition, create_options) ==
    LET s == Stat(d, file_name)
    IN  IF create_disposition > FILE_MAXIMUM_DISPOSITION
        THEN WErr(s.d, "STATUS_INVALID_PARAMETER")
        ELSE IF s.ok
        THEN CreateOnStat(s.d, s.stat, file_name, desired_write, create_disposition,
                          create_options)
        ELSE IF create_disposition \in {FILE_OPEN, FILE_OPEN_IF}
        THEN CreateOnMissing(s.d, file_name, create_options)
        ELSE WErr(s.d, "STATUS_INVALID_PARAMETER")

(* Driver::try_alt_stream reading delete_pending: the stream of a context  *)
(* is the one its Stat files under the same name                            *)
AltStreamDeletePending(d, context) ==
    \E name \in context.alt_stream : d.stats[context.stat].alt_streams[name].delete_pending

(* FileSystemHandler::cleanup; a failed removal is only logged *)
Cleanup(d, info_delete_on_close, context) ==
    LET stat == d.stats[context.stat]
        removed == IF stat.file.type = "dir" THEN RRemoveDir(d.r, stat.file.path)
                   ELSE RRemoveFile(d.r, stat.file.path)
    IN  IF \/ context.delete_on_close \/ stat.delete_on_close \/ stat.delete_pending
           \/ info_delete_on_close \/ AltStreamDeletePending(d, context)
        THEN WOk([d EXCEPT !.r = removed.r])
        ELSE WOk(d)

(* FileSystemHandler::close_file *)
CloseFile(d, file_name) == WOk([d EXCEPT !.fh = MapRemove(@, file_name)])

(* FileSystemHandler::delete_file *)
DeleteFile(d, info_delete_on_close, context) ==
    IF d.stats[context.stat].file.type = "dir" THEN WErr(d, "STATUS_CANNOT_DELETE")
    ELSE IF context.alt_stream # None
    THEN IF AltStreamDeletePending(d, context) THEN WErr(d, "STATUS_DELETE_PENDING")
         ELSE WOk(d)
    ELSE WOk([d EXCEPT !.stats[context.stat].delete_pending = info_delete_on_close])

(* FileSystemHandler::delete_directory *)
DeleteDirectory(d, info_delete_on_close, context) ==
    LET file == d.stats[context.stat].file
        listed == ListDir(d.r, file.path)
    IN  IF context.alt_stream # None THEN WErr(d, "STATUS_INVALID_DEVICE_REQUEST")
        ELSE IF file.type # "dir" THEN WErr(d, "STATUS_NOT_A_DIRECTORY")
        ELSE IF ~listed.ok THEN WErr(d, "STATUS_INVALID_DEVICE_REQUEST")
        ELSE IF listed.entries # << >> /\ info_delete_on_close
        THEN WErr(d, "STATUS_DIRECTORY_NOT_EMPTY")
        ELSE WOk([d EXCEPT !.stats[context.stat].delete_pending = info_delete_on_close])

(* RemoteFs::exists *)
RExists(r, path) == path \in DOMAIN r

(* RemoteFs::mov as the Dokan face meets it: whether a move onto an entry  *)
(* that exists replaces it or fails is the backend's choice (`replaces`)    *)
RMovOnto(r, src, dst, replaces) ==
    IF /\ replaces /\ src \in DOMAIN r /\ dst \in DOMAIN r /\ src # dst
       /\ src # Root /\ dst # Root
       /\ Children(r, src) = {} /\ Children(r, dst) = {}
    THEN [ok |-> TRUE, r |-> MapInsert(MapRemove(r, src), dst, r[src])]
    ELSE RMov(r, src, dst)

(* move_file, first critical section: the destination check under the      *)
(* remote's Mutex; TRUE when the callback goes on to the move               *)
MoveFileCheck(d, new_file_name, replace_if_existing) ==
    ~(~replace_if_existing /\ RExists(d.r, new_file_name))

(* move_file, second critical section: RemoteFs::mov under the Mutex taken *)
(* anew                                                                     *)
MoveFileMov(d, new_file_name, context, replaces) ==
    LET file == d.stats[context.stat].file
        moved == RMovOnto(d.r, file.path, new_file_name, replaces)
    IN  IF moved.ok THEN WOk([d EXCEPT !.r = moved.r])
        ELSE WErr(d, "STATUS_ACCESS_DENIED")

-----------------------------------------------------------------------------
(* SpecWindows: the Dokan callbacks on a remote root that holds up to two  *)
(* entries.  `remote` is the RemoteFs tree, `handlers` the file_handlers    *)
(* cache, and `session` holds the Stat objects, the file objects Dokan has  *)
(* open (name, context, whether cleanup has run) and the move_file calls    *)
(* that have passed the destination check and not yet moved.  Callbacks run *)
(* on Dokan's threads; move_file takes the remote's Mutex twice, so other   *)
(* callbacks may run between its check and its move.                        *)

ReadonlyMode == 292          \* 0o444

WinEntry(type, mode) == Node(type, Some(mode), Some(BackendUid), Some(BackendGid), << >>)

WinTrees ==
    {RootOnly,
     MapInsert(RootOnly, <<"a">>, WinEntry("file", NewFileMode)),
     MapInsert(RootOnly, <<"a">>, WinEntry("file", ReadonlyMode)),
     MapInsert(RootOnly, <<"a">>, WinEntry("dir", NewDirMode)),
     MapInsert(MapInsert(RootOnly, <<"a">>, WinEntry("file", NewFileMode)),
               <<"b">>, WinEntry("file", NewFileMode))}

Dispositions == {FILE_OPEN, FILE_CREATE, FILE_OPEN_IF, FILE_MAXIMUM_DISPOSITION + 1}
CreateOptions ==
    {{}, {"FILE_NON_DIRECTORY_FILE"}, {"FILE_NON_DIRECTORY_FILE", "FILE_DELETE_ON_CLOSE"}}
Slots == 1 .. MaxContexts
MaxCallbacks == 6            \* callback steps in a run

TheDriver == [r |-> remote, fh |-> handlers, stats |-> session.stats]

(* the alt_streams of the Stat the cache files under a name *)
CachedAltStreams(d, file_name) ==
    IF file_name \in DOMAIN d.fh THEN DOMAIN d.stats[d.fh[file_name]].alt_streams ELSE {}

(* an Arc<RwLock<Stat>> lives while the cache or a context holds it *)
LiveStats(d, files) ==
    [id \in {d.fh[k] : k \in DOMAIN d.fh} \cup {files[s].context.stat : s \in DOMAIN files}
        |-> d.stats[id]]

ApplyWin(op, file_name, arg, stat, res, files, moves) ==
    /\ remote' = res.d.r
    /\ handlers' = res.d.fh
    /\ session' = [stats |-> LiveStats(res.d, files), files |-> files, moves |-> moves]
    /\ last' = [op |-> op, name |-> file_name, arg |-> arg, reply |-> res.reply,
                existed |-> file_name \in DOMAIN remote,
                created |-> res.new_file_created,
                remote_changed |-> res.d.r # remote,
                streams_changed |->
                    CachedAltStreams(res.d, file_name) #
                        CachedAltStreams(TheDriver, file_name),
                pending |-> stat \in DOMAIN res.d.stats /\ res.d.stats[stat].delete_pending,
                n |-> last.n + 1]
    /\ UNCHANGED <<database, query, tempfiles, streaming>>

InitWindows ==
    /\ remote \in WinTrees
    /\ handlers = EmptyMap
    /\ session = [stats |-> EmptyMap, files |-> EmptyMap, moves |-> EmptyMap]
    /\ last = NoOp
    /\ database = EmptyMap /\ query = Unused /\ tempfiles = {} /\ streaming = Unused

FreeSlot(files) == CHOOSE s \in Slots \ DOMAIN files : TRUE

(* the file objects a callback other than close_file may be called on *)
OpenSlots == {s \in DOMAIN session.files : ~session.files[s].cleaned}
IdleSlots == OpenSlots \ DOMAIN session.moves
WinRunning == last.n < MaxCallbacks

WinCreateFile ==
    \E file_name \in WinNames, desired_write \in BOOLEAN,
       create_disposition \in Dispositions, create_options \in CreateOptions :
        /\ WinRunning
        /\ DOMAIN session.files # Slots
        /\ LET res == CreateFile(TheDriver, file_name, desired_write, create_disposition,
                                 create_options)
               files == IF res.context = None THEN session.files
                        ELSE MapInsert(session.files, FreeSlot(session.files),
                                       [name |-> file_name,
                                        context |-> UnwrapOr(res.context, 0),
                                        cleaned |-> FALSE])
           IN  ApplyWin("create_file", file_name, create_disposition, 0, res, files,
                        session.moves)

WinCleanup ==
    \E s \in IdleSlots, info_delete_on_close \in BOOLEAN :
        /\ WinRunning
        /\ LET f == session.files[s]
           IN  ApplyWin("cleanup", f.name, info_delete_on_close, f.context.stat,
                        Cleanup(TheDriver, info_delete_on_close, f.context),
                        [session.files EXCEPT ![s].cleaned = TRUE], session.moves)

WinCloseFile ==
    \E s \in DOMAIN session.files :
        /\ WinRunning
        /\ session.files[s].cleaned
        /\ ApplyWin("close_file", session.files[s].name, FALSE, 0,
                    CloseFile(TheDriver, session.files[s].name),
                    MapRemove(session.files, s), session.moves)

WinDeleteFile ==
    \E s \in IdleSlots, info_delete_on_close \in BOOLEAN :
        /\ WinRunning
        /\ LET f == session.files[s]
           IN  ApplyWin("delete_file", f.name, info_delete_on_close, f.context.stat,
                        DeleteFile(TheDriver, info_delete_on_close, f.context),
                        session.files, session.moves)

WinDeleteDirectory ==
    \E s \in IdleSlots, info_delete_on_close \in BOOLEAN :
        /\ WinRunning
        /\ LET f == session.files[s]
           IN  ApplyWin("delete_directory", f.name, info_delete_on_close, f.context.stat,
                        DeleteDirectory(TheDriver, info_delete_on_close, f.context),
                        session.files, session.moves)

(* move_file up to the end of its destination check *)
WinMoveFileCheck ==
    \E s \in IdleSlots, new_file_name \in WinNames, replace_if_existing \in BOOLEAN :
        /\ WinRunning
        /\ IF MoveFileCheck(TheDriver, new_file_name, replace_if_existing)
           THEN /\ session' = [session EXCEPT !.moves =
                                  MapInsert(@, s,
                                      [new_file_name |-> new_file_name,
                                       replace_if_existing |-> replace_if_existing])]
                /\ last' = [last EXCEPT !.n = @ + 1]
                /\ UNCHANGED <<handlers, database, remote, query, tempfiles, streaming>>
           ELSE ApplyWin("move_file", new_file_name, replace_if_existing, 0,
                         WErr(TheDriver, "STATUS_OBJECT_NAME_COLLISION"),
                         session.files, session.moves)

(* move_file from its destination check to its return *)
WinMoveFileMov ==
    \E s \in DOMAIN session.moves, replaces \in BOOLEAN :
        /\ WinRunning
        /\ LET m == session.moves[s]
           IN  ApplyWin("move_file", m.new_file_name, m.replace_if_existing, 0,
                        MoveFileMov(TheDriver, m.new_file_name, session.files[s].context,
                                    replaces),
                        session.files, MapRemove(session.moves, s))

NextWindows ==
    \/ WinCreateFile \/ WinCleanup \/ WinCloseFile \/ WinDeleteFile
    \/ WinDeleteDirectory \/ WinMoveFileCheck \/ WinMoveFileMov

SpecWindows == InitWindows /\ [][NextWindows]_vars

(* the refusals create_file makes before it looks at the disposition *)
EarlyRefusals ==
    {"STATUS_ACCESS_DENIED", "STATUS_DELETE_PENDING", "STATUS_CANNOT_DELETE"}

(* C16: create_file with FILE_CREATE on a name the remote holds replies    *)
(* name-collision and changes neither the remote nor the alt-stream map of  *)
(* the name's Stat, on the first call as on the later ones (a call refused  *)
(* before the disposition is looked at is left aside).                      *)
C16_CreateOnExistingCollides ==
    (/\ last.op = "create_file" /\ last.arg = FILE_CREATE /\ last.existed
     /\ last.reply \notin EarlyRefusals) =>
        /\ last.reply = "STATUS_OBJECT_NAME_COLLISION"
        /\ ~last.remote_changed
        /\ ~last.streams_changed

(* C17: create_file with FILE_OPEN on a name the remote does not hold      *)
(* replies not-found and creates nothing on the remote (a call refused on   *)
(* a Stat still cached for the name is left aside).                         *)
C17_OpenMissingNotFound ==
    (/\ last.op = "create_file" /\ last.arg = FILE_OPEN /\ ~last.existed
     /\ last.reply \notin EarlyRefusals) =>
        /\ last.reply = "STATUS_OBJECT_NAME_NOT_FOUND"
        /\ ~last.remote_changed

(* C18: after delete_file has succeeded with info.delete_on_close = true   *)
(* the Stat of its context has delete_pending set.                          *)
C18_DeleteFileSetsPending ==
    (last.op = "delete_file" /\ last.arg = TRUE /\ last.reply = "STATUS_SUCCESS") =>
        last.pending

(* C19: a move_file with replace_if_existing = false that returns while    *)
(* its destination exists has replied name-collision and left the remote    *)
(* as it was, whatever callbacks ran between its check and its move.        *)
C19_NoMoveOntoExisting ==
    (last.op = "move_file" /\ last.arg = FALSE /\ last.existed) =>
        /\ last.reply = "STATUS_OBJECT_NAME_COLLISION"
        /\ ~last.remote_changed

-----------------------------------------------------------------------------
(* mount/option.rs, mount.rs and driver.rs: the mount options.  Driver::new *)
(* stores the option list in Driver.options; Mount::mount hands fuser the   *)
(* options that convert and drops the others.                               *)

Uid(n) == [option |-> "uid", value |-> n]
Gid(n) == [option |-> "gid", value |-> n]
RW == [option |-> "rw", value |-> 0]

(* TryFrom<&MountOption> for fuser::MountOption, on the options above *)
TryFromMountOption(value) ==
    IF value.option = "rw" THEN Some("RW") ELSE None

(* Mount::mount: the options the fuser Session is given *)
SessionOptions(options) == UNION {TryFromMountOption(opt) : opt \in options}

-----------------------------------------------------------------------------
(* SpecOptions: lookup, getattr, create and mkdir on a Driver built with a  *)
(* list of mount options (kept in `query`), over a remote whose entries     *)
(* belong to the backend's uid and gid.                                     *)

OptionUid == 2000
OptionGid == 3000

OptionLists == {{RW}, {Uid(OptionUid), RW}, {Gid(OptionGid)}, {Uid(OptionUid), Gid(OptionGid)}}

InitOptions ==
    /\ remote \in {RootOnly, InodesTree}
    /\ database = InodeLoad
    /\ handlers = EmptyMap
    /\ last = NoOp
    /\ query \in {[options |-> o, session |-> SessionOptions(o)] : o \in OptionLists}
    /\ session = Unused /\ tempfiles = {} /\ streaming = Unused

OptLookup ==
    \E req \in Callers, parent \in ParentArgs, name \in Names :
        /\ Running
        /\ ApplyInode("lookup", parent, Lookup(database, remote, handlers, req, parent, name))

OptGetattr ==
    \E ino \in InodeArgs :
        /\ Running
        /\ ApplyInode("getattr", ino, Getattr(database, remote, handlers, ino))

OptCreate ==
    \E parent \in ParentArgs, name \in Names :
        /\ Running
        /\ HandleCount(handlers, Owner.pid) < MaxCreated
        /\ ApplyInode("create", parent,
                      Create(database, remote, handlers, Owner, parent, name,
                             FileModeArg, O_RDWR))

OptMkdir ==
    \E parent \in ParentArgs, name \in Names :
        /\ Running
        /\ ApplyInode("mkdir", parent,
                      Mkdir(database, remote, handlers, Owner, parent, name, DirMode))

NextOptions == OptLookup \/ OptGetattr \/ OptCreate \/ OptMkdir

SpecOptions == InitOptions /\ [][NextOptions]_vars

(* C20: with uid=N (gid=N) among the Driver's options, the attributes a    *)
(* lookup, getattr, create or mkdir replies are owned by uid N (gid N).     *)
C20_AttrsOwnedByOption ==
    last.op \in {"lookup", "getattr", "create", "mkdir"} =>
        \A a \in last.attrs :
            /\ \A opt \in query.options : opt.option = "uid" => a.uid = opt.value
            /\ \A opt \in query.options : opt.option = "gid" => a.gid = opt.value

-----------------------------------------------------------------------------
(* SpecClose: two users open the file /a and the directory /b and then     *)
(* flush, sync and release handle numbers, their own and others.  The       *)
(* history keeps the handle table as it was before the callback and the     *)
(* callback that ran before it.                                             *)

ApplyClose(op, req, fh, res) ==
    /\ database' = res.db
    /\ remote' = res.r
    /\ handlers' = res.h
    /\ tempfiles' = res.temps
    /\ last' = [op |-> op, pid |-> req.pid, fh |-> fh, reply |-> res.reply,
                calls |-> res.calls, before |-> handlers,
                remote_same |-> res.r = remote,
                prev |-> [op |-> last.op, pid |-> last.pid, fh |-> last.fh,
                          reply |-> last.reply],
                n |-> last.n + 1]
    /\ UNCHANGED <<query, session, streaming>>

InitClose ==
    /\ remote = FilesTree
    /\ database = FilesInodes
    /\ handlers = EmptyMap
    /\ streaming = TRUE
    /\ tempfiles = {}
    /\ last = [op |-> "none", pid |-> 0, fh |-> 0, reply |-> "none", n |-> 0]
    /\ query = Unused /\ session = Unused

(* a run is long enough for two opens and two releases *)
Closing == last.n < MaxSteps + 1

(* the handle number an open has just replied, or 0 when it failed *)
NewFh(res) == UnwrapOr(res.fh, 0)

CloseOpen ==
    \E req \in Callers, flags \in {O_RDONLY, O_RDWR} :
        /\ Closing
        /\ HandleCount(handlers, req.pid) < MaxOpen
        /\ LET res == Open(database, remote, handlers, tempfiles, req, Inode(FilePath),
                           flags)
           IN  ApplyClose("open", req, NewFh(res), res)

CloseOpendir ==
    \E req \in Callers :
        /\ Closing
        /\ HandleCount(handlers, req.pid) < MaxOpen
        /\ LET res == Opendir(database, remote, handlers, tempfiles, req, Inode(DirPath),
                              O_RDONLY)
           IN  ApplyClose("opendir", req, NewFh(res), res)

CloseFlush ==
    \E req \in Callers, fh \in SomeFhs :
        /\ Closing
        /\ ApplyClose("flush", req, fh,
                      Flush(database, remote, handlers, tempfiles, req, fh))

CloseFsync ==
    \E req \in Callers, fh \in SomeFhs :
        /\ Closing
        /\ ApplyClose("fsync", req, fh,
                      Fsync(database, remote, handlers, tempfiles, req, fh))

CloseFsyncdir ==
    \E req \in Callers, fh \in SomeFhs :
        /\ Closing
        /\ ApplyClose("fsyncdir", req, fh,
                      Fsyncdir(database, remote, handlers, tempfiles, req, fh))

CloseRelease ==
    \E req \in Callers, fh \in SomeFhs :
        /\ Closing
        /\ ApplyClose("release", req, fh,
                      Release(database, remote, handlers, tempfiles, req, fh))

CloseReleasedir ==
    \E req \in Callers, fh \in SomeFhs :
        /\ Closing
        /\ ApplyClose("releasedir", req, fh,
                      Releasedir(database, remote, handlers, tempfiles, req, fh))

NextClose ==
    \/ CloseOpen \/ CloseOpendir \/ CloseFlush \/ CloseFsync \/ CloseFsyncdir
    \/ CloseRelease \/ CloseReleasedir

SpecClose == InitClose /\ [][NextClose]_vars

(* C22: flush, fsync and fsyncdir reply ok when the caller's pid holds fh   *)
(* and ENOENT when it does not; they leave the handle table as it was and   *)
(* make no RemoteFs call.                                                   *)
C22_SyncNeedsKnownHandle ==
    last.op \in {"flush", "fsync", "fsyncdir"} =>
        /\ last.reply = IF DbGet(last.before, last.pid, last.fh) # None
                        THEN "ok" ELSE "ENOENT"
        /\ handlers = last.before
        /\ last.calls = {} /\ last.remote_same

(* C23: release and releasedir on a handle the caller's pid holds reply ok  *)
(* and close it, leaving the rows of the other pids as they were; on any    *)
(* other handle number they reply ENOENT and leave the table as it was, so  *)
(* the second of two releases of one handle replies ENOENT.                 *)
C23_ReleaseClosesOwnHandle ==
    last.op \in {"release", "releasedir"} =>
        /\ IF DbGet(last.before, last.pid, last.fh) # None
           THEN /\ last.reply = "ok"
                /\ DbGet(handlers, last.pid, last.fh) = None
                /\ \A pid \in Pids \ {last.pid}, fh \in Fhs :
                       DbGet(handlers, pid, fh) = DbGet(last.before, pid, fh)
           ELSE /\ last.reply = "ENOENT"
                /\ handlers = last.before
        /\ (/\ last.prev.op \in {"release", "releasedir"} /\ last.prev.reply = "ok"
            /\ last.prev.pid = last.pid /\ last.prev.fh = last.fh)
               => last.reply = "ENOENT"

(* a handle has been released twice in a row while the other pid holds a    *)
(* handle of the same number                                                *)
C23_Witness ==
    /\ last.op = "release" /\ last.prev.op = "release" /\ last.prev.reply = "ok"
    /\ last.prev.pid = last.pid /\ last.prev.fh = last.fh
    /\ \E pid \in Pids \ {last.pid} : DbGet(handlers, pid, last.fh) # None

(* C24: once readdir has emitted an entry with inode number i, the InodeDb  *)
(* maps i to the entry's path, so that getattr(i) finds it.                 *)
C24_ReaddirFilesInodes ==
    session.state \in {"listing", "done"} =>
        \A k \in 1 .. Len(session.emitted) :
            /\ InodeGet(database, Inode(<<session.emitted[k]>>)) = Some(<<session.emitted[k]>>)
            /\ Getattr(database, remote, handlers, Inode(<<session.emitted[k]>>)).reply = "attr"

(* C25: a symlink whose parent the caller may write and whose              *)
(* RemoteFs::symlink succeeded ends with a reply that carries the new       *)
(* file's attributes, and the Driver goes on serving callbacks.             *)
C25_SymlinkRepliesEntry ==
    (last.op = "symlink" /\ last.parentW /\ "symlink" \in last.calls /\ last.changed) =>
        /\ last.reply = "entry"
        /\ last.attrs # None

(* C26: mknod replies not-implemented only for a type other than regular   *)
(* file, directory and symlink, and then before any RemoteFs call; for the  *)
(* three types a mknod on a known parent the caller may write goes to the   *)
(* RemoteFs to create the node.                                             *)
C26_MknodTypes ==
    last.op = "mknod" =>
        /\ last.reply = "ENOSYS" => last.calls = {}
        /\ (last.parentW /\ last.reply # "ENOSYS") =>
               last.calls \cap {"create_file", "create_dir", "symlink"} # {}

(* C27: getattr replies ENOENT only for an inode the InodeDb does not      *)
(* hold; when the inode is there and the RemoteFs fails to stat its path    *)
(* the reply is EIO.                                                        *)
C27_StatFailureIsEio ==
    (last.op = "getattr" /\ last.ino \in DOMAIN database) =>
        last.reply \in {"attr", "EIO"}

-----------------------------------------------------------------------------
(* SpecRename: two users rename entries of a small tree and ask for the    *)
(* attributes of inodes.  The history keeps the paths of the rename, what   *)
(* the callers were allowed and whether the RemoteFs would move.            *)

NoRename == [op |-> "none", reply |-> "none", src |-> Root, dest |-> Root, n |-> 0]

(* the path lookup_name builds for a name under the directory of an inode *)
JoinName(db, parent, name) == IF parent \in DOMAIN db THEN Append(db[parent], name) ELSE Root

ApplyRename(op, ino, src, dest, allowed, res) ==
    /\ database' = res.db
    /\ remote' = res.r
    /\ handlers' = res.h
    /\ last' = [op |-> op, ino |-> ino, src |-> src, dest |-> dest, reply |-> res.reply,
                calls |-> res.calls, allowed |-> allowed,
                moves |-> RMov(remote, src, dest).ok,
                changed |-> res.r # remote,
                prev |-> [op |-> last.op, reply |-> last.reply, src |-> last.src],
                n |-> last.n + 1]
    /\ UNCHANGED <<query, session, tempfiles, streaming>>

InitRename ==
    /\ \E mode \in RootModes :
          remote \in {MapInsert([InodesTree EXCEPT ![Root].md.mode = Some(mode)], <<"b">>,
                           Node("file", Some(FileMode), Some(BackendUid), Some(BackendGid),
                                FileData)),
                      [InodesTree EXCEPT ![Root].md.mode = Some(mode)]}
    /\ database = InodeLoad
    /\ handlers = EmptyMap
    /\ last = NoRename
    /\ query = Unused /\ session = Unused /\ tempfiles = {} /\ streaming = Unused

RenRename ==
    \E req \in Callers, parent \in ParentArgs, name \in Names, newparent \in ParentArgs,
       newname \in Names :
        /\ Running
        /\ ApplyRename("rename", parent,
                       JoinName(database, parent, name),
                       JoinName(database, newparent, newname),
                       /\ ParentWritable(database, remote, req, parent)
                       /\ ParentWritable(database, remote, req, newparent),
                       Rename(database, remote, handlers, req, parent, name, newparent,
                              newname))

RenGetattr ==
    \E ino \in InodeArgs :
        /\ Running
        /\ ApplyRename("getattr", ino, Root, Root, TRUE,
                       Getattr(database, remote, handlers, ino))

NextRename == RenRename \/ RenGetattr

SpecRename == InitRename /\ [][NextRename]_vars

(* C28: a rename whose move succeeded leaves hash(dst) -> dst and the       *)
(* source path's inode in the InodeDb, and a getattr on the source inode    *)
(* right after it fails; a rename denied W_OK on a parent replies EACCES    *)
(* without calling mov; a rename whose mov fails replies EIO.               *)
C28_RenameFrame ==
    /\ last.op = "rename" =>
          /\ last.reply = "ok" =>
                 /\ InodeGet(database, Inode(last.dest)) = Some(last.dest)
                 /\ InodeGet(database, Inode(last.src)) = Some(last.src)
                 /\ last.changed
          /\ ~last.allowed =>
                 last.reply = "EACCES" /\ "mov" \notin last.calls /\ ~last.changed
          /\ (last.allowed /\ ~last.moves) => last.reply = "EIO" /\ ~last.changed
          /\ (last.allowed /\ last.moves) => last.reply = "ok"
    /\ (/\ last.op = "getattr" /\ last.prev.op = "rename" /\ last.prev.reply = "ok"
        /\ last.ino = Inode(last.prev.src)) => last.reply = "ENOENT"

(* a getattr on the source inode right after a rename that moved *)
C28_Witness ==
    /\ last.op = "getattr" /\ last.prev.op = "rename" /\ last.prev.reply = "ok"
    /\ last.ino = Inode(last.prev.src)

-----------------------------------------------------------------------------
(* SpecLookup: two users look names up under the inodes of a small tree    *)
(* and the kernel forgets inodes.  The history keeps the InodeDb as it was  *)
(* before the callback and the path the lookup was about.                   *)

ApplyLookup(op, req, parent, path, res) ==
    /\ database' = res.db
    /\ remote' = res.r
    /\ handlers' = res.h
    /\ last' = [op |-> op, req |-> req, parent |-> parent, path |-> path,
                reply |-> res.reply, attrs |-> res.attrs, calls |-> res.calls,
                before |-> database, n |-> last.n + 1]
    /\ UNCHANGED <<query, session, tempfiles, streaming>>

InitLookup ==
    /\ remote \in {RootOnly, InodesTree}
    /\ database = InodeLoad
    /\ handlers = EmptyMap
    /\ last = NoOp
    /\ query = Unused /\ session = Unused /\ tempfiles = {} /\ streaming = Unused

LkLookup ==
    \E req \in Callers, parent \in ParentArgs, name \in Names :
        /\ Running
        /\ ApplyLookup("lookup", req, parent, JoinName(database, parent, name),
                       Lookup(database, remote, handlers, req, parent, name))

LkForget ==
    \E ino \in InodeArgs :
        /\ Running
        /\ ApplyLookup("forget", Owner, ino, Root, Forget(database, remote, handlers, ino))

NextLookup == LkLookup \/ LkForget

SpecLookup == InitLookup /\ [][NextLookup]_vars

(* the stat of the looked-up path succeeds / the caller may search it *)
LookedUpExists == last.path \in DOMAIN remote
LookedUpXOk ==
    /\ LookedUpExists
    /\ CheckAccess(remote[last.path].md, last.req.uid, last.req.gid, X_OK)

(* C29: a lookup under an inode the InodeDb does not hold replies ENOENT    *)
(* and leaves the InodeDb as it was; otherwise hash(path) is filed for the  *)
(* path unless the InodeDb already held it, the child is stat-ed, the       *)
(* attributes are replied exactly when the stat succeeds and the caller has *)
(* X_OK on the child, and EACCES is replied when the X_OK check fails.      *)
C29_LookupFrame ==
    last.op = "lookup" =>
        /\ last.parent \notin DOMAIN last.before =>
              last.reply = "ENOENT" /\ database = last.before /\ last.calls = {}
        /\ last.parent \in DOMAIN last.before =>
              /\ database = DbPutIfAbsent(last.before, Inode(last.path), last.path)
              /\ "stat" \in last.calls
              /\ (last.reply = "entry") <=> LookedUpXOk
              /\ last.reply = "entry" =>
                    last.attrs = Some(ConvertFile(File(last.path, remote[last.path])))
              /\ (LookedUpExists /\ ~LookedUpXOk) => last.reply = "EACCES"

(* a lookup that files a new inode for an existing child the caller may not *)
(* search                                                                    *)
C29_Witness ==
    /\ last.op = "lookup" /\ last.parent \in DOMAIN last.before
    /\ Inode(last.path) \notin DOMAIN last.before
    /\ LookedUpExists /\ ~LookedUpXOk /\ last.reply = "EACCES"

-----------------------------------------------------------------------------
(* SpecRead: the processes of SpecFiles open the file and read ReadSize     *)
(* bytes at offsets before, at and past its end.                            *)

ReadOffsets == 0 .. Len(FileData) + 1

RdOpen ==
    \E req \in Callers, flags \in {O_RDONLY, O_RDWR} :
        /\ Running
        /\ HandleCount(handlers, req.pid) < MaxOpen
        /\ ApplyFile("open", req, Inode(FilePath), 0, flags,
                     Open(database, remote, handlers, tempfiles, req, Inode(FilePath),
                          flags))

RdRead ==
    \E req \in Callers, fh \in SomeFhs, offset \in ReadOffsets, tmpOk \in BOOLEAN :
    \E k \in StreamCounts(database, remote, Inode(FilePath), offset, ReadSize) :
        /\ Running
        /\ ApplyFile("read", req, Inode(FilePath), fh, offset,
                     Read(database, remote, handlers, tempfiles, streaming, req,
                          Inode(FilePath), fh, offset, ReadSize, k, tmpOk))

NextRead == RdOpen \/ RdRead

SpecRead == InitFiles /\ [][NextRead]_vars

(* C30: on a backend with streams, a read of ReadSize bytes at offset       *)
(* through a handle opened for reading replies the                          *)
(* n = min(ReadSize, s - offset) bytes of the file from offset on, which    *)
(* are no bytes at all, and no error, when offset is at or past the size s. *)
C30_ReadRepliesRange ==
    (streaming /\ last.op = "read" /\ (\E x \in last.held : x.read)) =>
        LET content == remote[FilePath].data
            n == Min(ReadSize, SaturatingSub(Len(content), last.arg))
        IN  /\ last.reply = "data"
            /\ last.data = SubSeq(content, last.arg + 1, last.arg + n)

-----------------------------------------------------------------------------
(* SpecWrite: Driver::write with every outcome the RemoteFs may give to     *)
(* create, seek, the copy and on_written.  The calls are kept in order.     *)

WriteOk(n, r, calls) == [ok |-> TRUE, n |-> n, err |-> "none", r |-> r, calls |-> calls]
WriteErr(err, r, calls) == [ok |-> FALSE, n |-> 0, err |-> err, r |-> r, calls |-> calls]

(* what RemoteFs::create may answer: a write stream or an error kind *)
CreateOutcomes == {"stream", "UnsupportedFeature", "PermissionDenied", "IoError"}

(* Driver::write_wno_stream; fileOk: create_file succeeds *)
WriteWnoStreamSteps(r, file, data, fileOk) ==
    IF fileOk
    THEN WriteOk(Len(data), RCreateFile(r, file.path, file.md, data).r,
                 <<"create", "create_file">>)
    ELSE WriteErr("IoError", r, <<"create", "create_file">>)

(* a write that falls back to the whole-file upload at any offset *)
DriverWriteAlwaysFallsBack(r, file, data, offset, created, seekOk, copyOk, writtenOk, fileOk) ==
    IF created = "UnsupportedFeature" THEN WriteWnoStreamSteps(r, file, data, fileOk)
    ELSE IF created # "stream" THEN WriteErr(created, r, <<"create">>)
    ELSE WriteOk(Len(data), RCreateFile(r, file.path, file.md, Zeros(offset) \o data).r,
                 <<"create", "on_written">>)

(* Driver::write, step by step.  The stream of create starts an empty      *)
(* file; a failed copy leaves it empty.                                     *)
DriverWriteSteps(r, file, data, offset, created, seekOk, copyOk, writtenOk, fileOk) ==
    LET opened == RCreateFile(r, file.path, file.md, << >>).r
        done == RCreateFile(r, file.path, file.md, Zeros(offset) \o data).r
    IN  IF created = "UnsupportedFeature" /\ offset > 0
        THEN WriteErr("UnsupportedFeature", r, <<"create">>)
        ELSE IF created = "UnsupportedFeature"
        THEN WriteWnoStreamSteps(r, file, data, fileOk)
        ELSE IF created # "stream" THEN WriteErr(created, r, <<"create">>)
        ELSE IF offset > 0 /\ ~seekOk THEN WriteErr("IoError", opened, <<"create">>)
        ELSE IF ~copyOk THEN WriteErr("IoError", opened, <<"create">>)
        ELSE IF ~writtenOk THEN WriteErr("IoError", done, <<"create", "on_written">>)
        ELSE WriteOk(Len(data), done, <<"create", "on_written">>)

InitWrite ==
    /\ remote \in {WithFile(d) : d \in Datas}
    /\ last = NoOp
    /\ handlers = EmptyMap /\ database = EmptyMap /\ tempfiles = {}
    /\ query = Unused /\ session = Unused /\ streaming = Unused

StepWrite ==
    \E data \in Datas, offset \in 0 .. 1, created \in CreateOutcomes,
       seekOk \in BOOLEAN, copyOk \in BOOLEAN, writtenOk \in BOOLEAN, fileOk \in BOOLEAN :
        /\ IsFile(remote, BridgePath)
        /\ LET res == DriverWriteSteps(remote, File(BridgePath, remote[BridgePath]), data,
                                       offset, created, seekOk, copyOk, writtenOk, fileOk)
           IN  /\ remote' = res.r
               /\ last' = [op |-> "write", data |-> data, offset |-> offset,
                           created |-> created, seekOk |-> seekOk,
                           ok |-> res.ok, n |-> res.n, err |-> res.err,
                           calls |-> res.calls, changed |-> res.r # remote]
        /\ UNCHANGED <<handlers, database, query, session, tempfiles, streaming>>

NextWrite == StepWrite

SpecWrite == InitWrite /\ [][NextWrite]_vars

(* how often a call is in the calls of the last write *)
CallCount(name) == Cardinality({i \in DOMAIN last.calls : last.calls[i] = name})

(* C31: Driver::write fails with UnsupportedFeature and writes nothing when *)
(* create is unsupported and offset > 0; it goes through create_file when   *)
(* create is unsupported and offset = 0; it returns any other error of      *)
(* create as it is; a failed seek gives IoError; a success returns |data|   *)
(* and has handed the stream to on_written exactly once.                    *)
C31_WriteOutcomes ==
    last.op = "write" =>
        /\ (last.created = "UnsupportedFeature" /\ last.offset > 0) =>
              /\ ~last.ok /\ last.err = "UnsupportedFeature"
              /\ ~last.changed /\ last.calls = <<"create">>
        /\ (last.created = "UnsupportedFeature" /\ last.offset = 0) =>
              /\ last.calls = <<"create", "create_file">>
              /\ last.ok => remote[BridgePath].data = last.data /\ last.n = Len(last.data)
        /\ last.created \notin {"stream", "UnsupportedFeature"} =>
              ~last.ok /\ last.err = last.created /\ ~last.changed
        /\ (last.created = "stream" /\ last.offset > 0 /\ ~last.seekOk) =>
              ~last.ok /\ last.err = "IoError"
        /\ (last.created = "stream" /\ last.ok) =>
              last.n = Len(last.data) /\ CallCount("on_written") = 1

(* a write of some bytes through the stream at an offset *)
C31_Witness ==
    /\ last.op = "write" /\ last.created = "stream" /\ last.offset > 0 /\ last.ok
    /\ CallCount("on_written") = 1 /\ last.n = Len(last.data) /\ last.n > 0

-----------------------------------------------------------------------------
(* SpecOpen: create_file and close_file on the trees of SpecWindows.  The   *)
(* history keeps the CreateFileInfo the call returned.                      *)

ApplyOpen(op, file_name, create_disposition, create_options, desired_write, res, files) ==
    /\ remote' = res.d.r
    /\ handlers' = res.d.fh
    /\ session' = [stats |-> LiveStats(res.d, files), files |-> files, moves |-> EmptyMap]
    /\ last' = [op |-> op, name |-> file_name, arg |-> create_disposition,
                options |-> create_options, desired_write |-> desired_write,
                reply |-> res.reply,
                existed |-> file_name \in DOMAIN remote,
                was_dir |-> IsDir(remote, file_name),
                context |-> res.context,
                is_dir |-> res.is_dir,
                created |-> res.new_file_created,
                streams_changed |->
                    CachedAltStreams(res.d, file_name) #
                        CachedAltStreams(TheDriver, file_name),
                n |-> last.n + 1]
    /\ UNCHANGED <<database, query, tempfiles, streaming>>

OpenCreateFile ==
    \E file_name \in WinNames, desired_write \in BOOLEAN,
       create_disposition \in Dispositions, create_options \in CreateOptions :
        /\ Running
        /\ DOMAIN session.files # Slots
        /\ LET res == CreateFile(TheDriver, file_name, desired_write, create_disposition,
                                 create_options)
               files == IF res.context = None THEN session.files
                        ELSE MapInsert(session.files, FreeSlot(session.files),
                                       [name |-> file_name,
                                        context |-> UnwrapOr(res.context, 0),
                                        cleaned |-> FALSE])
           IN  ApplyOpen("create_file", file_name, create_disposition, create_options,
                         desired_write, res, files)

OpenCloseFile ==
    \E s \in DOMAIN session.files :
        /\ Running
        /\ ApplyOpen("close_file", session.files[s].name, 0, {}, FALSE,
                     CloseFile(TheDriver, session.files[s].name),
                     MapRemove(session.files, s))

NextOpen == OpenCreateFile \/ OpenCloseFile

SpecOpen == InitWindows /\ [][NextOpen]_vars

(* C32: create_file with FILE_OPEN or FILE_OPEN_IF, no create option and no *)
(* write access, on the path of a file or directory the remote holds        *)
(* succeeds with a context that has no alt-stream, is_dir set for a         *)
(* directory only and new_file_created unset, and leaves the alt_streams of *)
(* the path's Stat as they were.                                            *)
C32_OpenPlainBindsNoStream ==
    (/\ last.op = "create_file" /\ last.arg \in {FILE_OPEN, FILE_OPEN_IF}
     /\ last.existed /\ last.options = {} /\ ~last.desired_write) =>
        /\ last.reply = "STATUS_SUCCESS"
        /\ \A c \in last.context : c.alt_stream = None
        /\ last.is_dir = last.was_dir
        /\ ~last.created
        /\ ~last.streams_changed

(* the file objects create_file returned for a name that close_file has not *)
(* been called on                                                            *)
OpenOn(file_name) == {s \in DOMAIN session.files : session.files[s].name = file_name}

(* C33: while a context that create_file returned for a path has not        *)
(* received close_file, the cache files the context's Stat under the path;  *)
(* close_file evicts the entry only when no such context is left.           *)
C33_CacheHoldsOpenPaths ==
    /\ \A s \in DOMAIN session.files :
          /\ session.files[s].name \in DOMAIN handlers
          /\ handlers[session.files[s].name] = session.files[s].context.stat
    /\ (last.op = "close_file" /\ OpenOn(last.name) # {}) => last.name \in DOMAIN handlers

-----------------------------------------------------------------------------
(* SpecLocks: the locks the Windows callbacks take, in the order and for    *)
(* the span the source takes them.  "remote" is the Mutex around the        *)
(* RemoteFs, "cache" the map file name -> Stat (one shard), "stat" the      *)
(* RwLock of one Stat and "alt" the RwLock of one AltStream; all callbacks  *)
(* are on the same file name.  Each thread runs one callback.               *)

MaxThreads == 2
Threads == 1 .. MaxThreads

Acq(lock, mode) == [k |-> "acq", lock |-> lock, mode |-> mode]
Rel(lock) == [k |-> "rel", lock |-> lock, mode |-> "none"]
(* a guard that is dropped at the end of the statement that takes it *)
Once(lock, mode) == <<Acq(lock, mode), Rel(lock)>>

(* Driver::remote *)
RemoteCall == Once("remote", "w")

(* Driver::try_alt_stream on a context with a stream *)
TryAltStream == Once("alt", "w")

(* Driver::stat on a cached name: the Ref it returns keeps the shard *)
StatHit == <<Acq("cache", "r")>>

(* Driver::stat on a name that is not cached and that the remote holds *)
StatMiss == Once("cache", "r") \o RemoteCall \o Once("cache", "w") \o <<Acq("cache", "r")>>

(* Driver::stat on a name the remote does not hold *)
StatFail == Once("cache", "r") \o RemoteCall

(* create_file once Driver::stat has returned a Ref: the read guard, the    *)
(* write guard around the lookup of the stream, the Ref dropped on return   *)
CreateOnStatLocks(with_stream) ==
    Once("stat", "r") \o <<Acq("stat", "w")>>
        \o (IF with_stream THEN Once("alt", "r") ELSE << >>)
        \o <<Rel("stat"), Rel("cache")>>

(* a delete_directory that takes the Stat's write guard inside the remote  *)
(* call                                                                      *)
DeleteDirectoryLocksNested ==
    Once("stat", "r") \o <<Acq("remote", "w"), Acq("stat", "w"), Rel("stat"), Rel("remote")>>

(* the callbacks *)
CleanupLocks ==
    <<Acq("stat", "r")>> \o TryAltStream \o RemoteCall \o <<Rel("stat")>>
CloseFileLocks == Once("cache", "w")
ReadFileLocks == Once("stat", "r") \o TryAltStream
WriteFileLocks == Once("stat", "r") \o RemoteCall \o RemoteCall
DeleteFileLocks == Once("stat", "r") \o Once("stat", "w")
DeleteDirectoryLocks == Once("stat", "r") \o RemoteCall \o Once("stat", "w")
MoveFileLocks == RemoteCall \o Once("stat", "r") \o RemoteCall
FindStreamsLocks == Once("stat", "r") \o Once("stat", "r") \o Once("alt", "r")

LockPrograms ==
    [create_file_cached |-> StatHit \o CreateOnStatLocks(TRUE),
     create_file_found |-> StatMiss \o CreateOnStatLocks(FALSE),
     create_file_missing |-> StatFail \o RemoteCall \o StatMiss \o <<Rel("cache")>>,
     cleanup |-> CleanupLocks,
     close_file |-> CloseFileLocks,
     read_file |-> ReadFileLocks,
     write_file |-> WriteFileLocks,
     delete_file |-> DeleteFileLocks,
     delete_directory |-> DeleteDirectoryLocks,
     move_file |-> MoveFileLocks,
     find_streams |-> FindStreamsLocks]

(* the locks of a thread, in the order it took them *)
HeldLocks(t) == session.held[t]
Holds(t, lock, modes) ==
    \E i \in DOMAIN HeldLocks(t) : HeldLocks(t)[i].lock = lock /\ HeldLocks(t)[i].mode \in modes

(* Mutex::lock, RwLock::read, RwLock::write *)
CanAcquire(t, lock, mode) ==
    \A u \in Threads \ {t} :
        IF mode = "r" THEN ~Holds(u, lock, {"w"}) ELSE ~Holds(u, lock, {"r", "w"})

Drop(held, lock) == SelectSeq(held, LAMBDA h : h.lock # lock)

NextInstr(t) == LockPrograms[session.pc[t].op][session.pc[t].i]
InCallback(t) ==
    /\ session.pc[t].op \in DOMAIN LockPrograms
    /\ session.pc[t].i <= Len(LockPrograms[session.pc[t].op])
Returned(t) ==
    /\ session.pc[t].op \in DOMAIN LockPrograms
    /\ session.pc[t].i > Len(LockPrograms[session.pc[t].op])
Blocked(t) ==
    /\ InCallback(t) /\ NextInstr(t).k = "acq"
    /\ ~CanAcquire(t, NextInstr(t).lock, NextInstr(t).mode)

InitLocks ==
    /\ session = [pc |-> [t \in Threads |-> [op |-> "idle", i |-> 0]],
                  held |-> [t \in Threads |-> << >>]]
    /\ last = NoOp
    /\ remote = EmptyMap /\ handlers = EmptyMap /\ database = EmptyMap
    /\ query = Unused /\ tempfiles = {} /\ streaming = Unused

(* Dokan calls a callback on a thread of its pool *)
BeginOn(t, op) ==
    /\ session.pc[t].op = "idle"
    /\ session' = [session EXCEPT !.pc[t] = [op |-> op, i |-> 1]]
    /\ last' = [op |-> op, reply |-> "begin", n |-> t]
    /\ UNCHANGED <<remote, handlers, database, query, tempfiles, streaming>>

(* the thread takes or drops the next lock of its callback *)
AdvanceOn(t) ==
    /\ InCallback(t)
    /\ LET ins == NextInstr(t)
       IN  /\ ins.k = "acq" => CanAcquire(t, ins.lock, ins.mode)
           /\ session' = [session EXCEPT
                             !.pc[t].i = @ + 1,
                             !.held[t] = IF ins.k = "acq"
                                         THEN Append(@, [lock |-> ins.lock, mode |-> ins.mode])
                                         ELSE Drop(@, ins.lock)]
           /\ last' = [op |-> session.pc[t].op, reply |-> ins.k, n |-> t]
    /\ UNCHANGED <<remote, handlers, database, query, tempfiles, streaming>>

LockBegin ==
    \E t \in Threads, op \in DOMAIN LockPrograms :
        /\ session.pc[t].op = "idle"
        /\ BeginOn(t, op)

LockAdvance ==
    \E t \in Threads :
        /\ InCallback(t)
        /\ AdvanceOn(t)

NextLocks == LockBegin \/ LockAdvance

SpecLocks == InitLocks /\ [][NextLocks]_vars

(* the scheduler runs every thread that can go on *)
SpecLocksFair == SpecLocks /\ \A t \in Threads : WF_vars(AdvanceOn(t))

LockRank(lock) ==
    CASE lock = "remote" -> 1 [] lock = "cache" -> 2 [] lock = "stat" -> 3 [] lock = "alt" -> 4

(* C34: every thread holds its locks in the order remote, cache, Stat,      *)
(* AltStream: a lock is never taken while a later one of the order is held. *)
C34_LockOrder ==
    \A t \in Threads : \A i, j \in DOMAIN HeldLocks(t) :
        i < j => LockRank(HeldLocks(t)[i].lock) < LockRank(HeldLocks(t)[j].lock)

(* C38: under any interleaving no callback waits for a lock forever: every *)
(* callback that has begun reaches its return.                              *)
C38_EveryCallbackReturns ==
    \A t \in Threads : InCallback(t) ~> Returned(t)

(* a create_file that waits for the Stat while a cleanup holds it and is in *)
(* its remote call                                                           *)
C38_Witness ==
    \E t, u \in Threads :
        /\ Blocked(t) /\ NextInstr(t).lock = "stat"
        /\ session.pc[u].op = "cleanup" /\ Holds(u, "stat", {"r"})
        /\ Holds(u, "remote", {"w"})

-----------------------------------------------------------------------------
(* SpecStat: Driver::stat, step by step, in the create_file of concurrent   *)
(* threads, and close_file, all on one file name.  handlers is the cache    *)
(* entry of the name (None or the identity of its Stat); a thread keeps the *)
(* Ref that Driver::stat returned until its create_file returns.            *)

MaxStatCalls == 5            \* create_file and close_file calls in one run

StatThread == [pc |-> "idle", got |-> 0, ref |-> FALSE, context |-> None, era |-> None]

InitStat ==
    /\ handlers = None
    /\ session = [th |-> [t \in Threads |-> StatThread], fresh |-> 1, calls |-> 0]
    /\ last = NoOp
    /\ remote = EmptyMap /\ database = EmptyMap
    /\ query = Unused /\ tempfiles = {} /\ streaming = Unused

(* no other thread holds a Ref into the shard *)
ShardFree(t) == \A u \in Threads \ {t} : ~session.th[u].ref

StatMove(t, op, th, cache, fresh, calls) ==
    /\ session' = [th |-> [session.th EXCEPT ![t] = th], fresh |-> fresh, calls |-> calls]
    /\ handlers' = cache
    /\ last' = [op |-> op, reply |-> th.pc, n |-> t]
    /\ UNCHANGED <<remote, database, query, tempfiles, streaming>>

(* create_file begins: Driver::stat looks the name up in the cache *)
StatLookup ==
    \E t \in Threads :
        /\ session.th[t].pc = "idle" /\ session.calls < MaxStatCalls
        /\ IF handlers # None
           THEN StatMove(t, "get", [session.th[t] EXCEPT !.pc = "found", !.ref = TRUE,
                                                         !.got = UnwrapOr(handlers, 0),
                                                         !.era = None],
                         handlers, session.fresh, session.calls + 1)
           ELSE StatMove(t, "get", [session.th[t] EXCEPT !.pc = "remote",
                                                         !.era = Some(session.fresh)],
                         handlers, session.fresh, session.calls + 1)

(* Driver::stat asks the RemoteFs, which answers or fails *)
StatRemote ==
    \E t \in Threads, ok \in BOOLEAN :
        /\ session.th[t].pc = "remote"
        /\ StatMove(t, "remote.stat",
                    [session.th[t] EXCEPT !.pc = IF ok THEN "insert" ELSE "idle"],
                    handlers, session.fresh, session.calls)

(* Driver::stat files a new Stat under the name *)
StatInsert ==
    \E t \in Threads :
        /\ session.th[t].pc = "insert" /\ ShardFree(t)
        /\ StatMove(t, "insert", [session.th[t] EXCEPT !.pc = "fetch"],
                    Some(session.fresh), session.fresh + 1, session.calls)

(* Driver::stat fetches the entry and unwraps it *)
StatFetch ==
    \E t \in Threads :
        /\ session.th[t].pc = "fetch"
        /\ IF handlers = None
           THEN StatMove(t, "unwrap", [session.th[t] EXCEPT !.pc = "panic"],
                         handlers, session.fresh, session.calls)
           ELSE StatMove(t, "unwrap", [session.th[t] EXCEPT !.pc = "found", !.ref = TRUE,
                                                            !.got = UnwrapOr(handlers, 0)],
                         handlers, session.fresh, session.calls)

(* create_file returns a context with a clone of the Stat and drops the Ref *)
StatReturn ==
    \E t \in Threads :
        /\ session.th[t].pc = "found"
        /\ StatMove(t, "create_file", [session.th[t] EXCEPT !.pc = "open", !.ref = FALSE,
                                                            !.context = Some(session.th[t].got)],
                    handlers, session.fresh, session.calls)

(* close_file on the context of the thread *)
StatCloseFile ==
    \E t \in Threads :
        /\ session.th[t].pc = "open" /\ ShardFree(t) /\ session.calls < MaxStatCalls
        /\ StatMove(t, "close_file", [session.th[t] EXCEPT !.pc = "idle", !.context = None],
                    None, session.fresh, session.calls + 1)

NextStat ==
    \/ StatLookup \/ StatRemote \/ StatInsert \/ StatFetch \/ StatReturn \/ StatCloseFile

SpecStat == InitStat /\ [][NextStat]_vars

(* C39: the fetch that follows the insert in Driver::stat never misses, and *)
(* two threads that both found the name uncached before either had filed   *)
(* its Stat end with the same Stat.                                          *)
C39_StatFetchNeverMisses ==
    /\ \A t \in Threads : session.th[t].pc # "panic"
    /\ \A t, u \in Threads :
          (/\ session.th[t].pc = "open" /\ session.th[u].pc = "open"
           /\ session.th[t].era # None /\ session.th[t].era = session.th[u].era)
              => session.th[t].context = session.th[u].context

-----------------------------------------------------------------------------
(* SpecStream: write_file, read_file and set_end_of_file on a context with  *)
(* or without a bound AltStream.  session is the data of the one AltStream. *)

MaxStream == 3               \* bytes in the longest stream
StreamOffsets == 0 .. MaxStream

Max(a, b) == IF a > b THEN a ELSE b

(* what a callback on a stream gives back *)
StreamOut(reply, ret, out, data, calls) ==
    [reply |-> reply, ret |-> ret, out |-> out, data |-> data, calls |-> calls]

(* a write of the buffer at the end of the stream, whatever the offset *)
AltWriteAtEnd(data, offset, buffer, write_to_eof) == data \o buffer

(* write_file, the closure run on the AltStream: Vec::resize with 0, then  *)
(* copy_from_slice into data[offset .. offset + len]                        *)
AltWrite(data, offset, buffer, write_to_eof) ==
    LET off == IF write_to_eof THEN Len(data) ELSE offset
        len == Len(buffer)
        resized == IF off + len > Len(data)
                   THEN data \o Zeros(off + len - Len(data)) ELSE data
    IN  [i \in 1 .. Len(resized) |->
            IF off < i /\ i <= off + len THEN buffer[i - off] ELSE resized[i]]

(* FileSystemHandler::write_file *)
WriteFile(data, bound, offset, buffer, write_to_eof) ==
    IF bound
    THEN StreamOut("STATUS_SUCCESS", Len(buffer), << >>,
                   AltWrite(data, offset, buffer, write_to_eof), {})
    ELSE StreamOut("STATUS_SUCCESS", Len(buffer), << >>, data,
                   IF write_to_eof THEN {"append", "on_written"}
                   ELSE {"create", "on_written"})

(* FileSystemHandler::read_file.  On the stream, data.len() - offset is a  *)
(* usize subtraction: past the end it overflows (a panic with overflow      *)
(* checks, a huge len and then a slice out of range without them).          *)
ReadFile(data, bound, offset, buffer_len) ==
    LET len == Min(buffer_len, Len(data) - offset)
    IN  IF ~bound THEN StreamOut("STATUS_SUCCESS", 0, << >>, data, {"open", "on_read"})
        ELSE IF offset > Len(data) THEN StreamOut("panic", 0, << >>, data, {})
        ELSE StreamOut("STATUS_SUCCESS", len, SubSeq(data, offset + 1, offset + len),
                       data, {})

(* FileSystemHandler::set_end_of_file: Vec::truncate *)
SetEndOfFile(data, bound, offset) ==
    IF bound
    THEN StreamOut("STATUS_SUCCESS", 0, << >>, SubSeq(data, 1, Min(offset, Len(data))), {})
    ELSE StreamOut("STATUS_NOT_IMPLEMENTED", 0, << >>, data, {})

ApplyStream(op, bound, offset, buffer, buffer_len, write_to_eof, res) ==
    /\ session' = res.data
    /\ last' = [op |-> op, bound |-> bound, offset |-> offset, buffer |-> buffer,
                buffer_len |-> buffer_len,
                at |-> IF write_to_eof THEN Len(session) ELSE offset,
                before |-> session, reply |-> res.reply, ret |-> res.ret, out |-> res.out,
                calls |-> res.calls,
                prev |-> IF last.op = "write_file" /\ last.bound
                         THEN Some([at |-> last.at, buffer |-> last.buffer,
                                    before |-> last.before])
                         ELSE None]
    /\ UNCHANGED <<remote, handlers, database, query, tempfiles, streaming>>

InitStream ==
    /\ session = << >>
    /\ last = NoOp
    /\ remote = EmptyMap /\ handlers = EmptyMap /\ database = EmptyMap
    /\ query = Unused /\ tempfiles = {} /\ streaming = Unused

(* the Driver is gone once a callback panicked *)
StreamAlive == last.reply # "panic"

StreamWriteFile ==
    \E bound \in BOOLEAN, offset \in StreamOffsets, buffer \in Datas,
       write_to_eof \in BOOLEAN :
        /\ StreamAlive
        /\ (IF write_to_eof THEN Len(session) ELSE offset) + Len(buffer) <= MaxStream
        /\ ApplyStream("write_file", bound, offset, buffer, Len(buffer), write_to_eof,
                       WriteFile(session, bound, offset, buffer, write_to_eof))

StreamReadFile ==
    \E bound \in BOOLEAN, offset \in StreamOffsets, buffer_len \in 0 .. MaxData :
        /\ StreamAlive
        /\ ApplyStream("read_file", bound, offset, << >>, buffer_len, FALSE,
                       ReadFile(session, bound, offset, buffer_len))

StreamSetEndOfFile ==
    \E bound \in BOOLEAN, offset \in StreamOffsets :
        /\ StreamAlive
        /\ ApplyStream("set_end_of_file", bound, offset, << >>, 0, FALSE,
                       SetEndOfFile(session, bound, offset))

NextStream == StreamWriteFile \/ StreamReadFile \/ StreamSetEndOfFile

SpecStream == InitStream /\ [][NextStream]_vars

(* C35: write_file on a bound AltStream puts the buffer at the offset (at   *)
(* the end with write_to_eof), fills a gap behind the old end with 0 and    *)
(* leaves every other byte as it was; a read_file right after it, at the    *)
(* same place and of the same length, returns the buffer; neither calls the *)
(* RemoteFs.                                                                *)
C35_StreamWriteThenRead ==
    /\ (last.op = "write_file" /\ last.bound) =>
          /\ last.reply = "STATUS_SUCCESS" /\ last.ret = Len(last.buffer)
          /\ last.calls = {}
          /\ Len(session) = Max(Len(last.before), last.at + Len(last.buffer))
          /\ \A i \in 1 .. Len(session) :
                session[i] = IF last.at < i /\ i <= last.at + Len(last.buffer)
                             THEN last.buffer[i - last.at]
                             ELSE IF i <= Len(last.before) THEN last.before[i] ELSE 0
    /\ (last.op = "read_file" /\ last.bound) =>
          \A w \in last.prev :
              (last.offset = w.at /\ last.buffer_len = Len(w.buffer)) =>
                  /\ last.reply = "STATUS_SUCCESS" /\ last.out = w.buffer
                  /\ last.calls = {}

(* a read right after a write that left a gap behind the old end *)
C35_Witness ==
    /\ last.op = "read_file" /\ last.bound /\ last.buffer_len > 0
    /\ \E w \in last.prev :
          /\ last.offset = w.at /\ last.buffer_len = Len(w.buffer)
          /\ w.at > Len(w.before) /\ last.out = w.buffer

(* C40: read_file on a bound AltStream returns                              *)
(* min(buffer length, max(0, stream length - offset)) bytes for every       *)
(* offset >= 0, none when the offset is past the end, and never fails.      *)
C40_StreamReadInBounds ==
    (last.op = "read_file" /\ last.bound) =>
        /\ last.reply = "STATUS_SUCCESS"
        /\ last.ret = Min(last.buffer_len, Max(0, Len(session) - last.offset))
        /\ Len(last.out) = last.ret

-----------------------------------------------------------------------------
(* the calls of read and write to the RemoteFs behind the stat of get_inode *)
TransferCalls == {"open", "on_read", "open_file", "create", "create_file", "on_written"}

(* C36: read and write transfer data with the RemoteFs only when the handle *)
(* fh of the calling process was opened on the inode they are called for.   *)
C36_HandleBoundToInode ==
    (last.op \in {"read", "write"} /\ last.calls \cap TransferCalls # {}) =>
        \E x \in last.held : x.inode = last.ino

-----------------------------------------------------------------------------
(* SpecChunks: Driver::write in chunks and Driver::read on the file /a of a *)
(* backend with seekable streams.                                           *)

ChunkOffsets == 0 .. MaxData

InitChunks ==
    /\ remote \in {WithFile(d) : d \in Datas}
    /\ streaming = TRUE
    /\ tempfiles = {}
    /\ last = NoOp
    /\ handlers = EmptyMap /\ database = EmptyMap
    /\ query = Unused /\ session = Unused

ChunkWrite ==
    \E data \in Datas \ {<< >>}, offset \in ChunkOffsets :
        /\ IsFile(remote, BridgePath)
        /\ LET res == DriverWrite(remote, streaming, tempfiles,
                                  File(BridgePath, remote[BridgePath]), data, offset, TRUE)
           IN  /\ remote' = res.r
               /\ tempfiles' = res.temps
               /\ last' = [op |-> "write", data |-> data, offset |-> offset,
                           before |-> remote[BridgePath].data, ok |-> res.ok,
                           prev |-> IF last.op = "write" /\ last.ok
                                    THEN Some([data |-> last.data, offset |-> last.offset])
                                    ELSE None]
        /\ UNCHANGED <<handlers, database, query, session, streaming>>

ChunkRead ==
    \E len \in 0 .. 2 * MaxData :
    \E k \in ReadCounts(len, Remaining(remote, BridgePath, 0)) :
        /\ IsFile(remote, BridgePath)
        /\ LET res == DriverRead(remote, streaming, tempfiles, BridgePath, len, 0, k, TRUE)
           IN  /\ remote' = res.r
               /\ tempfiles' = res.temps
               /\ last' = [op |-> "read", len |-> len, ok |-> res.ok, n |-> res.n,
                           buf |-> res.buf,
                           chunks |-> IF last.op = "write" /\ last.ok /\ last.prev # None
                                      THEN {[first |-> p, second |-> [data |-> last.data,
                                                                     offset |-> last.offset]] :
                                               p \in last.prev}
                                      ELSE {}]
        /\ UNCHANGED <<handlers, database, query, session, streaming>>

NextChunks == ChunkWrite \/ ChunkRead

SpecChunks == InitChunks /\ [][NextChunks]_vars

(* C37: a write at an offset > 0 leaves the bytes of the file before the    *)
(* offset as they were, and after write(D1, 0) and write(D2, |D1|) a read   *)
(* of |D1| + |D2| bytes at 0 that the stream serves in full yields D1 D2.   *)
C37_ChunkedWritesCompose ==
    /\ (last.op = "write" /\ last.ok /\ last.offset > 0) =>
          \A i \in 1 .. Min(last.offset, Len(last.before)) :
              remote[BridgePath].data[i] = last.before[i]
    /\ last.op = "read" =>
          \A c \in last.chunks :
              (/\ c.first.offset = 0 /\ c.second.offset = Len(c.first.data)
               /\ last.len = Len(c.first.data) + Len(c.second.data)
               /\ last.ok /\ last.n = last.len) =>
                  last.buf = c.first.data \o c.second.data

====
